---------------------------- MODULE Spec2Model ----------------------------
(***************************************************************************)
(* Model of the TMDB identity resolution engine of MoviePilot              *)
(* (app/modules/themoviedb/tmdbapi.py): match, match_multi, match_web and  *)
(* get_info, with the search listings, the name comparison, the season    *)
(* checks and the detail normalisation, and of the polling of             *)
(* Qbittorrent.get_torrent_id_by_tag (app/modules/qbittorrent).            *)
(*                                                                         *)
(* Strings are sequences of one-character tokens.  Dates "YYYY-MM-DD" are  *)
(* the numbers YYYYMMDD (their order is the lexicographic order of the     *)
(* strings), a year "YYYY" is the number YYYY, and 0 stands for a missing  *)
(* (None or empty) date or year.  Python's None, {} and a dict are the     *)
(* records NoneV, EmptyV and a record with kind = "rec".                   *)
(***************************************************************************)
EXTENDS Integers, Sequences, FiniteSets, TLC

(***************************************************************************)
(* Strings and the normaliser                                              *)
(***************************************************************************)

\* Python None where a string is expected, and the empty string
NoneStr == <<"None">>

EmptyStr == <<>>

Falsy(s) == s = NoneStr \/ s = EmptyStr

\* tokens of CJK ideographs: one that is the same in both scripts, a
\* traditional one and its simplified form
Ideograph == "U+4E2D"

IdeographTrad == "U+570B"

IdeographSimp == "U+56FD"

IsIdeograph(c) == c \in {Ideograph, IdeographTrad, IdeographSimp}

IsSpace(c) == c = " "

IsPunct(c) == c \in {"-", ":", "."}

\* str.upper on one character
UpperChar(c) ==
    CASE c = "a" -> "A"
      [] c = "b" -> "B"
      [] c = "c" -> "C"
      [] OTHER -> c

upper(s) == [i \in 1..Len(s) |-> UpperChar(s[i])]

RECURSIVE lstrip(_)
lstrip(s) == IF s # <<>> /\ IsSpace(Head(s)) THEN lstrip(Tail(s)) ELSE s

RECURSIVE rstrip(_)
rstrip(s) ==
    IF s # <<>> /\ IsSpace(s[Len(s)]) THEN rstrip(SubSeq(s, 1, Len(s) - 1)) ELSE s

\* str.strip
strip(s) == lstrip(rstrip(s))

RECURSIVE DropPunct(_)
DropPunct(s) ==
    IF s = <<>> THEN <<>>
    ELSE IF IsPunct(Head(s)) THEN DropPunct(Tail(s))
    ELSE <<Head(s)>> \o DropPunct(Tail(s))

RECURSIVE DropSpace(_)
DropSpace(s) ==
    IF s = <<>> THEN <<>>
    ELSE IF IsSpace(Head(s)) THEN DropSpace(Tail(s))
    ELSE <<Head(s)>> \o DropSpace(Tail(s))

\* StringUtils.clear: strips punctuation and whitespace
clear(text) == IF Falsy(text) THEN text ELSE DropSpace(DropPunct(text))

\* StringUtils.is_chinese: the string holds at least one CJK ideograph
is_chinese(text) ==
    /\ ~Falsy(text)
    /\ \E i \in 1..Len(text) : IsIdeograph(text[i])

\* zhconv.convert(text, "zh-hans"): traditional ideographs become simplified
zhconv_hans(text) ==
    [i \in 1..Len(text) |-> IF text[i] = IdeographTrad THEN IdeographSimp ELSE text[i]]

\* lines 130-133: a falsy name argument compares as the empty list, a single
\* name as the list holding it
NameArg(t) == IF Falsy(t) THEN <<>> ELSE <<t>>

\* a comparison that accepts a catalog name the file name is a prefix of
compare_names_prefix(file_name, tmdb_names) ==
    /\ ~Falsy(file_name)
    /\ tmdb_names # <<>>
    /\ \E i \in 1..Len(tmdb_names) :
          LET f == upper(clear(file_name))
              t == upper(strip(clear(tmdb_names[i])))
          IN  Len(f) <= Len(t) /\ SubSeq(t, 1, Len(f)) = f

\* a comparison that does not fold the case of the catalog names
compare_names_cased(file_name, tmdb_names) ==
    /\ ~Falsy(file_name)
    /\ tmdb_names # <<>>
    /\ \E i \in 1..Len(tmdb_names) :
          upper(clear(file_name)) = strip(clear(tmdb_names[i]))

\* __compare_names
compare_names(file_name, tmdb_names) ==
    /\ ~Falsy(file_name)
    /\ tmdb_names # <<>>
    /\ \E i \in 1..Len(tmdb_names) :
          upper(clear(file_name)) = upper(strip(clear(tmdb_names[i])))


(***************************************************************************)
(* Values and catalog records                                              *)
(***************************************************************************)

\* Python None and the empty dict {}
NoneV == [kind |-> "None"]

EmptyV == [kind |-> "Empty"]

\* truthiness of an Optional[dict]
Truthy(v) == v.kind = "rec"

\* MediaType enumeration values, and the raw strings of the catalog
MOVIE == "MediaType.MOVIE"

TV == "MediaType.TV"

UNKNOWN == "MediaType.UNKNOWN"

\* a key that a record does not carry
Absent == "absent"

\* x[0:4] of a date string
Year4(date) == date \div 10000

\* a catalog record; the fields a search summary does not carry are empty
Record(mt, id, t, ot, rd, n, on, fad) ==
    [kind |-> "rec", id |-> id, media_type |-> mt,
     title |-> t, original_title |-> ot, release_date |-> rd,
     name |-> n, original_name |-> on, first_air_date |-> fad,
     original_language |-> Absent,
     genres |-> <<>>,
     alternative_titles |-> [titles |-> <<>>, results |-> <<>>],
     translations |-> <<>>,
     release_dates |-> <<>>,
     content_ratings |-> <<>>,
     seasons |-> <<>>,
     genre_ids |-> <<>>, names |-> <<>>, content_rating |-> NoneStr,
     en_title |-> NoneStr, hk_title |-> NoneStr, tw_title |-> NoneStr,
     sg_title |-> NoneStr]

(***************************************************************************)
(* Detail normalisation                                                    *)
(***************************************************************************)

\* the loops of __get_names: append each truthy name not yet in the list
RECURSIVE AppendNames(_, _)
AppendNames(ret_names, titles) ==
    IF titles = <<>> THEN ret_names
    ELSE LET title == Head(titles)
             seen == \E i \in 1..Len(ret_names) : ret_names[i] = title
         IN  AppendNames(IF ~Falsy(title) /\ ~seen
                            THEN Append(ret_names, title) ELSE ret_names,
                         Tail(titles))

\* a names list that starts with the translated titles
get_names_translations_first(tmdb_info) ==
    IF ~Truthy(tmdb_info) THEN <<>>
    ELSE LET alternative_titles == IF tmdb_info.media_type = MOVIE
                                   THEN tmdb_info.alternative_titles.titles
                                   ELSE tmdb_info.alternative_titles.results
             translations == tmdb_info.translations
             alts == [i \in 1..Len(alternative_titles) |-> alternative_titles[i].title]
             trs == [i \in 1..Len(translations) |->
                        IF tmdb_info.media_type = MOVIE THEN translations[i].data.title
                        ELSE translations[i].data.name]
         IN  AppendNames(AppendNames(<<>>, trs), alts)

\* __get_names
get_names(tmdb_info) ==
    IF ~Truthy(tmdb_info) THEN <<>>
    ELSE IF tmdb_info.media_type = MOVIE
    THEN LET alternative_titles == tmdb_info.alternative_titles.titles
             translations == tmdb_info.translations
             alts == [i \in 1..Len(alternative_titles) |-> alternative_titles[i].title]
             trs == [i \in 1..Len(translations) |-> translations[i].data.title]
         IN  AppendNames(AppendNames(<<>>, alts), trs)
    ELSE LET alternative_titles == tmdb_info.alternative_titles.results
             translations == tmdb_info.translations
             alts == [i \in 1..Len(alternative_titles) |-> alternative_titles[i].title]
             trs == [i \in 1..Len(translations) |-> translations[i].data.name]
         IN  AppendNames(AppendNames(<<>>, alts), trs)

\* get_info.__get_genre_ids
get_genre_ids(genres) == [i \in 1..Len(genres) |-> genres[i].id]

\* the ratings dict of __get_content_rating: the value last stored under a
\* country, NoneStr when the country has no entry
RECURSIVE RatingsGet(_, _)
RatingsGet(pairs, country) ==
    IF pairs = <<>> THEN NoneStr
    ELSE LET last == pairs[Len(pairs)]
         IN  IF last.iso_3166_1 = country THEN last.rating
             ELSE RatingsGet(SubSeq(pairs, 1, Len(pairs) - 1), country)

\* the entries the movie loop stores: country and first certification
RECURSIVE MovieRatings(_)
MovieRatings(results) ==
    IF results = <<>> THEN <<>>
    ELSE LET item == Head(results)
             skip == \/ item.iso_3166_1 \in {Absent, ""}
                     \/ item.release_dates = <<>>
                     \/ Falsy(item.release_dates[1].certification)
         IN  (IF skip THEN <<>>
              ELSE <<[iso_3166_1 |-> item.iso_3166_1,
                      rating |-> item.release_dates[1].certification]>>)
             \o MovieRatings(Tail(results))

\* the entries the TV loop stores: country and rating
RECURSIVE TvRatings(_)
TvRatings(results) ==
    IF results = <<>> THEN <<>>
    ELSE LET item == Head(results)
             skip == item.iso_3166_1 \in {Absent, ""} \/ Falsy(item.rating)
         IN  (IF skip THEN <<>>
              ELSE <<[iso_3166_1 |-> item.iso_3166_1, rating |-> item.rating]>>)
             \o TvRatings(Tail(results))

\* a rating that looks at content_ratings before release_dates
get_content_rating_tv_first(tmdb_info) ==
    IF ~Truthy(tmdb_info) THEN NoneStr
    ELSE LET ratings == IF tmdb_info.content_ratings # <<>>
                        THEN TvRatings(tmdb_info.content_ratings)
                        ELSE IF tmdb_info.release_dates # <<>>
                        THEN MovieRatings(tmdb_info.release_dates)
                        ELSE <<>>
         IN  IF ratings = <<>> THEN NoneStr
             ELSE IF ~Falsy(RatingsGet(ratings, "CN")) THEN RatingsGet(ratings, "CN")
             ELSE RatingsGet(ratings, "US")

\* a rating that prefers the US entry to the CN entry
get_content_rating_us_first(tmdb_info) ==
    IF ~Truthy(tmdb_info) THEN NoneStr
    ELSE LET ratings == IF tmdb_info.release_dates # <<>>
                        THEN MovieRatings(tmdb_info.release_dates)
                        ELSE IF tmdb_info.content_ratings # <<>>
                        THEN TvRatings(tmdb_info.content_ratings)
                        ELSE <<>>
         IN  IF ratings = <<>> THEN NoneStr
             ELSE IF ~Falsy(RatingsGet(ratings, "US")) THEN RatingsGet(ratings, "US")
             ELSE RatingsGet(ratings, "CN")

\* __get_content_rating
get_content_rating(tmdb_info) ==
    IF ~Truthy(tmdb_info) THEN NoneStr
    ELSE LET ratings == IF tmdb_info.release_dates # <<>>
                        THEN MovieRatings(tmdb_info.release_dates)
                        ELSE IF tmdb_info.content_ratings # <<>>
                        THEN TvRatings(tmdb_info.content_ratings)
                        ELSE <<>>
         IN  IF ratings = <<>> THEN NoneStr
             ELSE IF ~Falsy(RatingsGet(ratings, "CN")) THEN RatingsGet(ratings, "CN")
             ELSE RatingsGet(ratings, "US")

\* __update_tmdbinfo_extra_title.__get_tmdb_lang_title
RECURSIVE get_tmdb_lang_title(_, _, _)
get_tmdb_lang_title(media_type, translations, lang) ==
    IF translations = <<>> THEN NoneStr
    ELSE IF Head(translations).iso_3166_1 = lang
    THEN IF media_type = MOVIE THEN Head(translations).data.title
         ELSE Head(translations).data.name
    ELSE get_tmdb_lang_title(media_type, Tail(translations), lang)

\* a or b on strings
OrStr(a, b) == IF Falsy(a) THEN b ELSE a

\* locale titles that fall back to the primary title, not the original one
update_tmdbinfo_extra_title_primary(tmdb_info) ==
    LET org_title == IF tmdb_info.media_type = MOVIE
                     THEN tmdb_info.title ELSE tmdb_info.name
        lang(l) == get_tmdb_lang_title(tmdb_info.media_type, tmdb_info.translations, l)
    IN  [tmdb_info EXCEPT
            !.en_title = IF tmdb_info.original_language = "en" THEN org_title
                         ELSE OrStr(lang("US"), org_title),
            !.hk_title = lang("HK"),
            !.tw_title = lang("TW"),
            !.sg_title = OrStr(lang("SG"), org_title)]

\* locale titles whose en_title is the US translation whatever the language
update_tmdbinfo_extra_title_us_first(tmdb_info) ==
    LET org_title == IF tmdb_info.media_type = MOVIE
                     THEN tmdb_info.original_title ELSE tmdb_info.original_name
        lang(l) == get_tmdb_lang_title(tmdb_info.media_type, tmdb_info.translations, l)
    IN  [tmdb_info EXCEPT
            !.en_title = OrStr(lang("US"), org_title),
            !.hk_title = lang("HK"),
            !.tw_title = lang("TW"),
            !.sg_title = OrStr(lang("SG"), org_title)]

\* __update_tmdbinfo_extra_title
update_tmdbinfo_extra_title(tmdb_info) ==
    LET org_title == IF tmdb_info.media_type = MOVIE
                     THEN tmdb_info.original_title ELSE tmdb_info.original_name
        lang(l) == get_tmdb_lang_title(tmdb_info.media_type, tmdb_info.translations, l)
    IN  [tmdb_info EXCEPT
            !.en_title = IF tmdb_info.original_language = "en" THEN org_title
                         ELSE OrStr(lang("US"), org_title),
            !.hk_title = lang("HK"),
            !.tw_title = lang("TW"),
            !.sg_title = OrStr(lang("SG"), org_title)]

\* __update_tmdbinfo_cn_title.__get_tmdb_chinese_title
RECURSIVE get_tmdb_chinese_title(_, _)
get_tmdb_chinese_title(tmdbinfo, alternative_titles) ==
    IF alternative_titles = <<>>
    THEN IF tmdbinfo.media_type = MOVIE THEN tmdbinfo.title ELSE tmdbinfo.name
    ELSE LET alternative_title == Head(alternative_titles)
             title == alternative_title.title
         IN  IF /\ alternative_title.iso_3166_1 = "CN"
                /\ ~Falsy(title)
                /\ is_chinese(title)
                /\ zhconv_hans(title) = title
             THEN title
             ELSE get_tmdb_chinese_title(tmdbinfo, Tail(alternative_titles))

\* tmdb_info['title'] = t for a movie, tmdb_info['name'] = t otherwise
SetPrimary(tmdb_info, t) ==
    IF tmdb_info.media_type = MOVIE THEN [tmdb_info EXCEPT !.title = t]
    ELSE [tmdb_info EXCEPT !.name = t]

\* a rewrite that tries sg_title before the CN alternative title
update_tmdbinfo_cn_title_sg_first(tmdb_info) ==
    LET org_title == IF tmdb_info.media_type = MOVIE
                     THEN tmdb_info.title ELSE tmdb_info.name
        cn_title == get_tmdb_chinese_title(tmdb_info,
                        IF tmdb_info.media_type = MOVIE
                        THEN tmdb_info.alternative_titles.titles
                        ELSE tmdb_info.alternative_titles.results)
        sg_title == tmdb_info.sg_title
    IN  IF is_chinese(org_title) THEN tmdb_info
        ELSE IF ~Falsy(sg_title) /\ sg_title # org_title /\ is_chinese(sg_title)
        THEN SetPrimary(tmdb_info, sg_title)
        ELSE IF ~Falsy(cn_title) /\ cn_title # org_title
        THEN SetPrimary(tmdb_info, cn_title)
        ELSE tmdb_info

\* __update_tmdbinfo_cn_title
update_tmdbinfo_cn_title(tmdb_info) ==
    LET org_title == IF tmdb_info.media_type = MOVIE
                     THEN tmdb_info.title ELSE tmdb_info.name
        cn_title == get_tmdb_chinese_title(tmdb_info,
                        IF tmdb_info.media_type = MOVIE
                        THEN tmdb_info.alternative_titles.titles
                        ELSE tmdb_info.alternative_titles.results)
        sg_title == tmdb_info.sg_title
    IN  IF is_chinese(org_title) THEN tmdb_info
        ELSE IF ~Falsy(cn_title) /\ cn_title # org_title
        THEN SetPrimary(tmdb_info, cn_title)
        ELSE IF ~Falsy(sg_title) /\ sg_title # org_title /\ is_chinese(sg_title)
        THEN SetPrimary(tmdb_info, sg_title)
        ELSE tmdb_info

\* lines 613-624 of get_info: the derived attributes of a non-empty record
Normalize(tmdb_info, locale) ==
    LET a == [tmdb_info EXCEPT !.genre_ids = get_genre_ids(tmdb_info.genres)]
        b == [a EXCEPT !.names = get_names(a)]
        c == [b EXCEPT !.content_rating = get_content_rating(b)]
        d == update_tmdbinfo_extra_title(c)
    IN  IF locale = "zh" THEN update_tmdbinfo_cn_title(d) ELSE d

\* tmdb_info['media_type'] = mt on a non-empty record
SetType(tmdb_info, mt) ==
    IF Truthy(tmdb_info) THEN [tmdb_info EXCEPT !.media_type = mt] ELSE tmdb_info

\* a lookup that settles a collision of the two types in favour of TV
get_info_prefers_tv(mtype, movie_detail, tv_detail, locale) ==
    LET tmdb_info ==
            IF mtype = MOVIE THEN SetType(movie_detail, MOVIE)
            ELSE IF mtype = TV THEN SetType(tv_detail, TV)
            ELSE IF Truthy(tv_detail) THEN SetType(tv_detail, TV)
            ELSE IF Truthy(movie_detail) THEN SetType(movie_detail, MOVIE)
            ELSE NoneV
    IN  IF Truthy(tmdb_info) THEN Normalize(tmdb_info, locale) ELSE tmdb_info

\* get_info, given what __get_movie_detail and __get_tv_detail return for the id
get_info(mtype, movie_detail, tv_detail, locale) ==
    LET tmdb_info ==
            IF mtype = MOVIE THEN SetType(movie_detail, MOVIE)
            ELSE IF mtype = TV THEN SetType(tv_detail, TV)
            ELSE IF Truthy(tv_detail) /\ Truthy(movie_detail) THEN NoneV
            ELSE IF Truthy(tv_detail) THEN SetType(tv_detail, TV)
            ELSE IF Truthy(movie_detail) THEN SetType(movie_detail, MOVIE)
            ELSE NoneV
    IN  IF Truthy(tmdb_info) THEN Normalize(tmdb_info, locale) ELSE tmdb_info

(***************************************************************************)
(* The catalog the engine talks to                                         *)
(***************************************************************************)

\* a missing date ('0000-00-00' as a sort key), year and season number
NoDate == 0

NoYear == 0

NoSeason == -1

\* the query name "A b" and catalog names: one that differs from it in case
\* and whitespace only, a superstring of it, an unrelated one
NameQ == <<"A", " ", "b">>

NameQVar == <<"a", " ", " ", "B">>

NameLong == <<"A", " ", "b", " ", "c">>

NameOther == <<"B", "a">>

\* a query name in CJK script
NameCJK == <<Ideograph, IdeographSimp>>

AltTitle(iso, t) == [iso_3166_1 |-> iso, title |-> t]

Translation(iso, t, n) == [iso_3166_1 |-> iso, data |-> [title |-> t, name |-> n]]

SeasonInfo(n, d) == [season_number |-> n, air_date |-> d]

MovieRec(id, t, ot, rd) == Record(Absent, id, t, ot, rd, NoneStr, NoneStr, NoDate)

TvRec(id, n, on, fad) == Record(Absent, id, NoneStr, NoneStr, NoDate, n, on, fad)

\* the movies of the catalog, by id (what movie.details returns)
MovieDetails ==
    <<MovieRec(1, NameQ, NameOther, 20050327),
      MovieRec(2, NameQVar, NameOther, 20060201),
      [MovieRec(3, NameOther, NameOther, 20040501) EXCEPT
          !.alternative_titles.titles = <<AltTitle("CN", NameCJK)>>,
          !.translations = <<Translation("US", NameQ, NoneStr)>>],
      MovieRec(4, NameQ, NameQ, NoDate),
      [MovieRec(5, NameLong, NameLong, 20060201) EXCEPT
          !.alternative_titles.titles = <<AltTitle("CN", NameLong)>>],
      MovieRec(6, NameOther, NameQ, 20050327)>>

\* the TV shows of the catalog, by id (what tv.details returns)
TvDetails ==
    <<[TvRec(1, NameQ, NameOther, 20050327) EXCEPT
          !.seasons = <<SeasonInfo(1, 20050327)>>],
      [TvRec(2, NameQVar, NameOther, 20040110) EXCEPT
          !.seasons = <<SeasonInfo(1, 20050327)>>,
          !.alternative_titles.results = <<AltTitle("US", NameQ)>>],
      [TvRec(3, NameOther, NameOther, 20040110) EXCEPT
          !.seasons = <<SeasonInfo(0, 20060108), SeasonInfo(1, 20050327),
                        SeasonInfo(2, 20060401)>>,
          !.translations = <<Translation("US", NoneStr, NameQ)>>],
      [TvRec(4, NameLong, NameLong, 20060110) EXCEPT
          !.seasons = <<SeasonInfo(NoSeason, 20060110)>>,
          !.alternative_titles.results = <<AltTitle("US", NameLong)>>],
      [TvRec(5, NameQ, NameQ, NoDate) EXCEPT
          !.seasons = <<SeasonInfo(1, 20050327)>>]>>

MovieIds == 1..Len(MovieDetails)

TvIds == 1..Len(TvDetails)

\* the summary a search returns for a record: no alias, translation, season
\* or rating data; media_type is set by the multi search only
Summary(d, mt) ==
    Record(mt, d.id, d.title, d.original_title, d.release_date,
           d.name, d.original_name, d.first_air_date)

\* a person of the multi search
PersonRec == Record("person", 9, NoneStr, NoneStr, NoDate, NameQ, NameQ, NoDate)

MovieSummaries == {Summary(MovieDetails[i], Absent) : i \in MovieIds}

TvSummaries == {Summary(TvDetails[i], Absent) : i \in TvIds}

MultiSummaries ==
    {Summary(MovieDetails[i], "movie") : i \in MovieIds}
        \cup {Summary(TvDetails[i], "tv") : i \in TvIds}
        \cup {PersonRec}

\* the largest number of candidates one search returns
MaxCands == 2

\* the sequences of at most n distinct elements of S
RECURSIVE DistinctSeqs(_, _)
DistinctSeqs(S, n) ==
    IF n = 0 THEN {<<>>}
    ELSE LET shorter == DistinctSeqs(S, n - 1)
             longest == {r \in shorter : Len(r) = n - 1}
         IN  shorter \cup
             {Append(p[1], p[2]) :
                 p \in {pp \in longest \X S :
                           \A i \in 1..Len(pp[1]) : pp[1][i] # pp[2]}}

(***************************************************************************)
(* Candidate scoring                                                       *)
(***************************************************************************)

\* sorted(xs, key=Key, reverse=True): descending by key, and stable, so
\* that elements with equal keys keep the order they came in
RECURSIVE InsertDesc(_, _, _)
InsertDesc(Key(_), sorted, x) ==
    IF sorted = <<>> THEN <<x>>
    ELSE IF Key(Head(sorted)) < Key(x) THEN <<x>> \o sorted
    ELSE <<Head(sorted)>> \o InsertDesc(Key, Tail(sorted), x)

RECURSIVE SortedDescFrom(_, _, _)
SortedDescFrom(Key(_), done, xs) ==
    IF xs = <<>> THEN done
    ELSE SortedDescFrom(Key, InsertDesc(Key, done, Head(xs)), Tail(xs))

SortedDesc(Key(_), xs) == SortedDescFrom(Key, <<>>, xs)

\* x.get('release_date') or '0000-00-00'
ReleaseKey(x) == x.release_date

\* x.get('first_air_date') or '0000-00-00'
FirstAirKey(x) == x.first_air_date

\* a sort key without the leading movie flag
MultiKey_date_only(x) ==
    IF x.release_date # NoDate THEN x.release_date ELSE x.first_air_date

\* ("1" if x.get("media_type") == "movie" else "0")
\*     + (x.get('release_date') or x.get('first_air_date') or '0000-00-00')
MultiKey(x) ==
    (IF x.media_type = "movie" THEN 100000000 ELSE 0)
        + (IF x.release_date # NoDate THEN x.release_date ELSE x.first_air_date)

\* the candidates left in the order the catalog returned them
SortMovies_unsorted(movies) == movies

\* lines 258-262
SortMovies(movies) == SortedDesc(ReleaseKey, movies)

\* lines 305-309 and 382-386
SortTvs(tvs) == SortedDesc(FirstAirKey, tvs)

\* lines 464-472
SortMultis(multis) == SortedDesc(MultiKey, multis)

\* x.get(date)[0:4] if x.get(date) else None
YearOf(date) == IF date # NoDate THEN Year4(date) ELSE NoYear

\* what __get_movie_detail / __get_tv_detail return for an id; the call
\* fails (None) for the ids in bad
movie_detail(tmdbid, bad) ==
    IF tmdbid \in bad \/ tmdbid \notin MovieIds THEN NoneV ELSE MovieDetails[tmdbid]

tv_detail(tmdbid, bad) ==
    IF tmdbid \in bad \/ tmdbid \notin TvIds THEN NoneV ELSE TvDetails[tmdbid]

\* a detail call: get_info(mtype, tmdbid)
Fetch(mtype, tmdbid) == [mtype |-> mtype, id |-> tmdbid]

\* the outcome of a search loop: the record returned and the detail calls
\* made on the way
Outcome(ret, fetched) == [ret |-> ret, fetched |-> fetched]

\* a candidate loop that a failed or empty detail fetch ends
RECURSIVE MovieLoop_abort(_, _, _, _, _, _)
MovieLoop_abort(name, year, movies, bad, locale, fetched) ==
    IF movies = <<>> THEN Outcome(EmptyV, fetched)
    ELSE LET movie == Head(movies)
             movie_year == YearOf(movie.release_date)
             fetch == movie.names = <<>>
             info == IF fetch
                     THEN get_info(MOVIE, movie_detail(movie.id, bad), NoneV, locale)
                     ELSE movie
             fetched2 == IF fetch THEN Append(fetched, Fetch(MOVIE, movie.id)) ELSE fetched
         IN  IF year # NoYear /\ movie_year # year
             THEN MovieLoop_abort(name, year, Tail(movies), bad, locale, fetched)
             ELSE IF compare_names(name, NameArg(movie.title))
             THEN Outcome(movie, fetched)
             ELSE IF compare_names(name, NameArg(movie.original_title))
             THEN Outcome(movie, fetched)
             ELSE IF ~Truthy(info)
             THEN Outcome(EmptyV, fetched2)
             ELSE IF compare_names(name, info.names)
             THEN Outcome(info, fetched2)
             ELSE MovieLoop_abort(name, year, Tail(movies), bad, locale, fetched2)

\* lines 263-279: the candidate loop of __search_movie_by_name
RECURSIVE MovieLoop(_, _, _, _, _, _)
MovieLoop(name, year, movies, bad, locale, fetched) ==
    IF movies = <<>> THEN Outcome(EmptyV, fetched)
    ELSE LET movie == Head(movies)
             movie_year == YearOf(movie.release_date)
             fetch == movie.names = <<>>
             info == IF fetch
                     THEN get_info(MOVIE, movie_detail(movie.id, bad), NoneV, locale)
                     ELSE movie
             fetched2 == IF fetch THEN Append(fetched, Fetch(MOVIE, movie.id)) ELSE fetched
         IN  IF year # NoYear /\ movie_year # year
             THEN MovieLoop(name, year, Tail(movies), bad, locale, fetched)
             ELSE IF compare_names(name, NameArg(movie.title))
             THEN Outcome(movie, fetched)
             ELSE IF compare_names(name, NameArg(movie.original_title))
             THEN Outcome(movie, fetched)
             ELSE IF Truthy(info) /\ compare_names(name, info.names)
             THEN Outcome(info, fetched2)
             ELSE MovieLoop(name, year, Tail(movies), bad, locale, fetched2)

\* a search that does not hold the candidates to the year
search_movie_by_name_any_year(name, year, res, bad, locale) ==
    IF ~res.ok THEN Outcome(NoneV, <<>>)
    ELSE IF res.list = <<>> THEN Outcome(EmptyV, <<>>)
    ELSE MovieLoop(name, NoYear, SortMovies(res.list), bad, locale, <<>>)

\* a search without the except clauses of lines 246-251: the exception of a
\* failed call leaves the function
search_movie_by_name_uncaught(name, year, res, bad, locale) ==
    IF ~res.ok THEN Outcome([kind |-> "raise"], <<>>)
    ELSE IF res.list = <<>> THEN Outcome(EmptyV, <<>>)
    ELSE MovieLoop(name, year, SortMovies(res.list), bad, locale, <<>>)

\* __search_movie_by_name; res is what search.movies answers
search_movie_by_name(name, year, res, bad, locale) ==
    IF ~res.ok THEN Outcome(NoneV, <<>>)
    ELSE IF res.list = <<>> THEN Outcome(EmptyV, <<>>)
    ELSE MovieLoop(name, year, SortMovies(res.list), bad, locale, <<>>)

\* lines 310-324: the candidate loop of __search_tv_by_name
RECURSIVE TvLoop(_, _, _, _, _, _)
TvLoop(name, year, tvs, bad, locale, fetched) ==
    IF tvs = <<>> THEN Outcome(EmptyV, fetched)
    ELSE LET tv == Head(tvs)
             tv_year == YearOf(tv.first_air_date)
             fetch == tv.names = <<>>
             info == IF fetch
                     THEN get_info(TV, NoneV, tv_detail(tv.id, bad), locale)
                     ELSE tv
             fetched2 == IF fetch THEN Append(fetched, Fetch(TV, tv.id)) ELSE fetched
         IN  IF year # NoYear /\ tv_year # year
             THEN TvLoop(name, year, Tail(tvs), bad, locale, fetched)
             ELSE IF compare_names(name, NameArg(tv.name))
             THEN Outcome(tv, fetched)
             ELSE IF compare_names(name, NameArg(tv.original_name))
             THEN Outcome(tv, fetched)
             ELSE IF Truthy(info) /\ compare_names(name, info.names)
             THEN Outcome(info, fetched2)
             ELSE TvLoop(name, year, Tail(tvs), bad, locale, fetched2)

\* __search_tv_by_name; res is what search.tv_shows answers
search_tv_by_name(name, year, res, bad, locale) ==
    IF ~res.ok THEN Outcome(NoneV, <<>>)
    ELSE IF res.list = <<>> THEN Outcome(EmptyV, <<>>)
    ELSE TvLoop(name, year, SortTvs(res.list), bad, locale, <<>>)

\* an episode air_date that is a string but not of the form YYYY-MM-DD
Malformed == -2

\* ret_seasons[key] = value on a dict kept as the sequence of its items
RECURSIVE DictPut(_, _, _)
DictPut(d, key, value) ==
    IF d = <<>> THEN <<[key |-> key, value |-> value]>>
    ELSE IF Head(d).key = key THEN <<[key |-> key, value |-> value]>> \o Tail(d)
    ELSE <<Head(d)>> \o DictPut(Tail(d), key, value)

RECURSIVE SeasonsFrom(_, _)
SeasonsFrom(ret_seasons, seasons) ==
    IF seasons = <<>> THEN ret_seasons
    ELSE LET season_info == Head(seasons)
         IN  IF season_info.season_number \in {NoSeason, 0}
             THEN SeasonsFrom(ret_seasons, Tail(seasons))
             ELSE SeasonsFrom(DictPut(ret_seasons, season_info.season_number,
                                      season_info),
                              Tail(seasons))

\* __get_tv_seasons
get_tv_seasons(tv_info) ==
    IF ~Truthy(tv_info) THEN <<>> ELSE SeasonsFrom(<<>>, tv_info.seasons)

\* lines 343-353: the loop over the episode groups; a first episode without
\* air_date raises inside re.match, which the handler turns into False
RECURSIVE GroupLoop(_, _, _)
GroupLoop(group_seasons, season_year, season_number) ==
    IF group_seasons = <<>> THEN FALSE
    ELSE LET group_season == Head(group_seasons)
             episodes == group_season.episodes
             rest == GroupLoop(Tail(group_seasons), season_year, season_number)
         IN  IF group_season.order # season_number THEN rest
             ELSE IF episodes = <<>> THEN rest
             ELSE IF episodes[1].air_date = NoDate THEN FALSE
             ELSE IF episodes[1].air_date = Malformed THEN rest
             ELSE IF season_year = Year4(episodes[1].air_date) THEN TRUE
             ELSE rest

\* a season check that looks at the season number alone
season_match_any_year(tv_info, season_year, season_number, group_seasons) ==
    /\ Truthy(tv_info)
    /\ \E i \in 1..Len(tv_info.seasons) :
          tv_info.seasons[i].season_number = season_number

\* a season check that turns to the seasons of the show when no group passes
season_match_seasons_too(tv_info, season_year, season_number, group_seasons) ==
    IF ~Truthy(tv_info) THEN FALSE
    ELSE \/ GroupLoop(group_seasons, season_year, season_number)
         \/ LET seasons == get_tv_seasons(tv_info)
            IN  \E i \in 1..Len(seasons) :
                   /\ seasons[i].value.air_date # NoDate
                   /\ Year4(seasons[i].value.air_date) = season_year
                   /\ seasons[i].key = season_number

\* __search_tv_by_season.__season_match
season_match(tv_info, season_year, season_number, group_seasons) ==
    IF ~Truthy(tv_info) THEN FALSE
    ELSE IF group_seasons # <<>>
    THEN GroupLoop(group_seasons, season_year, season_number)
    ELSE LET seasons == get_tv_seasons(tv_info)
         IN  \E i \in 1..Len(seasons) :
                /\ seasons[i].value.air_date # NoDate
                /\ Year4(seasons[i].value.air_date) = season_year
                /\ seasons[i].key = season_number

\* lines 387-401: the candidate loop of __search_tv_by_season
RECURSIVE SeasonLoop(_, _, _, _, _, _, _, _)
SeasonLoop(name, season_year, season_number, group_seasons, tvs, bad, locale, fetched) ==
    IF tvs = <<>> THEN Outcome(EmptyV, fetched)
    ELSE LET tv == Head(tvs)
             tv_year == YearOf(tv.first_air_date)
             fetch == tv.names = <<>>
             info == IF fetch
                     THEN get_info(TV, NoneV, tv_detail(tv.id, bad), locale)
                     ELSE tv
             fetched2 == IF fetch THEN Append(fetched, Fetch(TV, tv.id)) ELSE fetched
         IN  IF /\ \/ compare_names(name, NameArg(tv.name))
                   \/ compare_names(name, NameArg(tv.original_name))
                /\ tv_year # NoYear
                /\ tv_year = season_year
             THEN Outcome(tv, fetched)
             ELSE IF ~Truthy(info) \/ ~compare_names(name, info.names)
             THEN SeasonLoop(name, season_year, season_number, group_seasons,
                             Tail(tvs), bad, locale, fetched2)
             ELSE IF season_match(info, season_year, season_number, group_seasons)
             THEN Outcome(info, fetched2)
             ELSE SeasonLoop(name, season_year, season_number, group_seasons,
                             Tail(tvs), bad, locale, fetched2)

\* a season search that accepts as the name search does, whatever the year
search_tv_by_season_by_name(name, season_year, season_number, group_seasons, res, bad, locale) ==
    IF ~res.ok THEN Outcome(NoneV, <<>>)
    ELSE IF res.list = <<>> THEN Outcome(EmptyV, <<>>)
    ELSE TvLoop(name, NoYear, SortTvs(res.list), bad, locale, <<>>)

\* __search_tv_by_season; res is what search.tv_shows answers
search_tv_by_season(name, season_year, season_number, group_seasons, res, bad, locale) ==
    IF ~res.ok THEN Outcome(NoneV, <<>>)
    ELSE IF res.list = <<>> THEN Outcome(EmptyV, <<>>)
    ELSE SeasonLoop(name, season_year, season_number, group_seasons,
                    SortTvs(res.list), bad, locale, <<>>)

\* lines 473-495: the candidate loop of match_multi
RECURSIVE MultiLoop(_, _, _, _, _)
MultiLoop(name, multis, bad, locale, fetched) ==
    IF multis = <<>> THEN Outcome(EmptyV, fetched)
    ELSE LET multi == Head(multis)
             fetch == multi.names = <<>>
             fetched2 == IF fetch
                         THEN Append(fetched,
                                     Fetch(IF multi.media_type = "movie"
                                           THEN MOVIE ELSE TV, multi.id))
                         ELSE fetched
         IN  IF multi.media_type = "movie"
             THEN LET info == IF fetch
                              THEN get_info(MOVIE, movie_detail(multi.id, bad),
                                            NoneV, locale)
                              ELSE multi
                  IN  IF \/ compare_names(name, NameArg(multi.title))
                         \/ compare_names(name, NameArg(multi.original_title))
                      THEN Outcome(multi, fetched)
                      ELSE IF Truthy(info) /\ compare_names(name, info.names)
                      THEN Outcome(info, fetched2)
                      ELSE MultiLoop(name, Tail(multis), bad, locale, fetched2)
             ELSE IF multi.media_type = "tv"
             THEN LET info == IF fetch
                              THEN get_info(TV, NoneV, tv_detail(multi.id, bad),
                                            locale)
                              ELSE multi
                  IN  IF \/ compare_names(name, NameArg(multi.name))
                         \/ compare_names(name, NameArg(multi.original_name))
                      THEN Outcome(multi, fetched)
                      ELSE IF Truthy(info) /\ compare_names(name, info.names)
                      THEN Outcome(info, fetched2)
                      ELSE MultiLoop(name, Tail(multis), bad, locale, fetched2)
             ELSE MultiLoop(name, Tail(multis), bad, locale, fetched)

\* lines 497-499: a raw media_type becomes the enumeration value
\* a result that keeps the media_type it was accepted with
TypeChange_none(ret_info) == ret_info

TypeChange(ret_info) ==
    IF Truthy(ret_info) /\ ret_info.media_type \notin {MOVIE, TV, UNKNOWN}
    THEN [ret_info EXCEPT !.media_type =
             IF ret_info.media_type = "movie" THEN MOVIE ELSE TV]
    ELSE ret_info

\* match_multi; res is what search.multi answers
match_multi(name, res, bad, locale) ==
    IF ~res.ok THEN Outcome(NoneV, <<>>)
    ELSE IF res.list = <<>> THEN Outcome(EmptyV, <<>>)
    ELSE LET out == MultiLoop(name, SortMultis(res.list), bad, locale, <<>>)
         IN  Outcome(TypeChange(out.ret), out.fetched)

(***************************************************************************)
(* State                                                                   *)
(***************************************************************************)

VARIABLES
    pc,        \* where the running call is: "idle", "season", "tv", "movie", "web",
               \* "done"; "again" and "same" once a get_info call was repeated
    op,        \* the public operation running or just finished
    q,         \* its arguments
    cat,       \* the candidates the catalog holds for the query name, in its order
    years,     \* match: the part of year_range not yet tried
    info,      \* match: info; at "done", the value the operation returns
    calls,     \* the searches issued so far by the running operation, in order
    resp,      \* what the catalog answered to the last search
    failed,    \* some search of the running operation has failed
    bad,       \* the ids whose detail call failed during the last search
    fetched,   \* the detail calls made during the last search, in order
    locale,    \* settings.TMDB_LOCALE
    page,      \* match_web: what the public search page answered
    cache,     \* match_web: the entry of the result cache
    backoff,   \* match_web: the limiter's backoff deadline has not elapsed
    raised,    \* the exception the operation raised, "" if it returned
    detail,    \* get_info: what the movie and the TV detail call return for the id
    again,     \* get_info: the value a repetition of the call returns
    names      \* __compare_names: tmdb_names

vars == <<pc, op, q, cat, years, info, calls, resp, failed, bad, fetched, locale,
          page, cache, backoff, raised, detail, again, names>>

webvars == <<page, cache, backoff>>

infovars == <<detail, again, names>>

\* what __get_movie_detail and __get_tv_detail return
Details(movie, tv) == [movie |-> movie, tv |-> tv]

NoDetail == Details(NoneV, NoneV)

Query(name, mtype, year, season_year, season_number, group_seasons) ==
    [name |-> name, mtype |-> mtype, year |-> year, season_year |-> season_year,
     season_number |-> season_number, group_seasons |-> group_seasons]

NoQuery == Query(EmptyStr, UNKNOWN, NoYear, NoYear, NoSeason, <<>>)

\* one episode group, season 1, whose first episode aired in 2006
Groups2006 == <<[order |-> 1, episodes |-> <<[air_date |-> 20060101]>>]>>

\* the calls of match that are modelled
Queries ==
    {Query(EmptyStr, MOVIE, NoYear, NoYear, NoSeason, <<>>)}
    \cup {Query(NameQ, mt, y, sy, sn, <<>>) :
             mt \in {MOVIE, UNKNOWN}, y \in {NoYear, 2005},
             sy \in {NoYear, 2005}, sn \in {NoSeason, 1}}
    \cup {Query(NameQ, TV, y, sy, sn, <<>>) :
             y \in {NoYear, 2005}, sy \in {NoYear, 2005, 2006},
             sn \in {NoSeason, 0, 1}}
    \cup {Query(NameQ, TV, y, sy, 1, Groups2006) :
             y \in {NoYear, 2005}, sy \in {2005, 2006}}
    \cup {Query(NameQ, mt, y, 2006, 1, Groups2006) :
             mt \in {MOVIE, UNKNOWN}, y \in {NoYear, 2005}}

MovieCats == DistinctSeqs(MovieSummaries, MaxCands)

TvCats == DistinctSeqs(TvSummaries, MaxCands)

MultiCats == DistinctSeqs(MultiSummaries, MaxCands)

\* the answers of a search: the call fails, or returns a list
Failed == [ok |-> FALSE, list |-> <<>>]

Ok(list) == [ok |-> TRUE, list |-> list]

NoAnswer == Ok(<<>>)

ReleasedIn(c, year) == YearOf(c.release_date) = year

FirstAiredIn(c, year) == YearOf(c.first_air_date) = year

\* search.movies(term, year): the call fails, or the catalog answers with
\* its candidates, with or without those of another year
MovieAnswers(year) ==
    {Failed, Ok(cat)}
        \cup (IF year # NoYear
              THEN {Ok(SelectSeq(cat, LAMBDA c : ReleasedIn(c, year)))} ELSE {})

\* search.tv_shows(term, release_year)
TvAnswers(year) ==
    {Failed, Ok(cat)}
        \cup (IF year # NoYear
              THEN {Ok(SelectSeq(cat, LAMBDA c : FirstAiredIn(c, year)))} ELSE {})

IdsOf(res) == {res.list[i].id : i \in 1..Len(res.list)}

\* what the public search page answers: "no response" when get_res returns
\* None, else the HTTP status, the kind of text and the anchors carrying a
\* data-id attribute
Page(status, text, anchors) == [status |-> status, text |-> text, anchors |-> anchors]

\* no page was requested
NoPage == Page("not requested", "", <<>>)

NoEntry == [name |-> EmptyStr, mtype |-> UNKNOWN, value |-> NoneV]

Init ==
    /\ pc = "idle"
    /\ op = "none"
    /\ q = NoQuery
    /\ cat = <<>>
    /\ years = <<>>
    /\ info = NoneV
    /\ calls = <<>>
    /\ resp = NoAnswer
    /\ failed = FALSE
    /\ bad = {}
    /\ fetched = <<>>
    /\ locale \in {"zh", "en"}
    /\ page = NoPage
    /\ cache = NoEntry
    /\ backoff = FALSE
    /\ raised = ""
    /\ detail = NoDetail
    /\ again = NoneV
    /\ names = <<>>

(***************************************************************************)
(* match                                                                   *)
(***************************************************************************)

\* a window that tries the year before ahead of the year after
year_range_swapped(year) ==
    IF year # NoYear THEN <<year, year - 1, year + 1>> ELSE <<year>>

\* lines 198-201 and 219-222
year_range(year) == IF year # NoYear THEN <<year, year + 1, year - 1>> ELSE <<year>>

Call(fn, year) == [fn |-> fn, year |-> year]

\* resp, bad and fetched describe the search that ended the call; a search
\* after which the call goes on to another one leaves them cleared
Observe(res, failing, calls_made) ==
    /\ resp' = res
    /\ bad' = failing
    /\ fetched' = calls_made

\* a call of match that takes an unknown type for a TV show
Match_unknown_as_tv ==
    /\ pc = "idle"
    /\ \E query \in Queries :
          /\ q' = query
          /\ IF Falsy(query.name)
             THEN /\ pc' = "done"
                  /\ info' = NoneV
                  /\ years' = <<>>
                  /\ cat' = <<>>
             ELSE /\ info' = EmptyV
                  /\ years' = year_range(query.year)
                  /\ pc' = IF query.mtype = MOVIE THEN "movie"
                           ELSE IF /\ query.season_year # NoYear
                                   /\ query.season_number \notin {NoSeason, 0}
                           THEN "season"
                           ELSE "tv"
                  /\ cat' \in IF query.mtype = MOVIE THEN MovieCats ELSE TvCats
    /\ op' = "match"
    /\ calls' = <<>>
    /\ failed' = FALSE
    /\ Observe(NoAnswer, {}, <<>>)
    /\ raised' = ""
    /\ UNCHANGED <<locale, webvars, infovars>>

\* lines 191-211: the call of match up to its first search
Match ==
    /\ pc = "idle"
    /\ \E query \in Queries :
          /\ q' = query
          /\ IF Falsy(query.name)
             THEN /\ pc' = "done"
                  /\ info' = NoneV
                  /\ years' = <<>>
                  /\ cat' = <<>>
             ELSE /\ info' = EmptyV
                  /\ years' = year_range(query.year)
                  /\ pc' = IF query.mtype # TV THEN "movie"
                           ELSE IF /\ query.season_year # NoYear
                                   /\ query.season_number \notin {NoSeason, 0}
                           THEN "season"
                           ELSE "tv"
                  /\ cat' \in IF query.mtype # TV THEN MovieCats ELSE TvCats
    /\ op' = "match"
    /\ calls' = <<>>
    /\ failed' = FALSE
    /\ Observe(NoAnswer, {}, <<>>)
    /\ raised' = ""
    /\ UNCHANGED <<locale, webvars, infovars>>

\* lines 202-208: one pass of the movie loop over year_range
MovieNamePass ==
    /\ pc = "movie"
    /\ years # <<>>
    /\ \E res \in MovieAnswers(Head(years)) : \E failing \in SUBSET IdsOf(res) :
          LET year == Head(years)
              out == search_movie_by_name(q.name, year, res, failing, locale)
          IN  /\ calls' = Append(calls, Call("search_movie_by_name", year))
              /\ failed' = (failed \/ ~res.ok)
              /\ info' = SetType(out.ret, MOVIE)
              /\ IF Truthy(out.ret) \/ Tail(years) = <<>>
                 THEN /\ pc' = "done"
                      /\ years' = <<>>
                      /\ Observe(res, failing, out.fetched)
                 ELSE /\ pc' = "movie"
                      /\ years' = Tail(years)
                      /\ Observe(NoAnswer, {}, <<>>)
    /\ UNCHANGED <<op, q, cat, locale, raised, webvars, infovars>>

\* lines 211-218: the season-aware search
SeasonSearch ==
    /\ pc = "season"
    /\ \E res \in TvAnswers(NoYear) : \E failing \in SUBSET IdsOf(res) :
          LET out == search_tv_by_season(q.name, q.season_year, q.season_number,
                                         q.group_seasons, res, failing, locale)
          IN  /\ calls' = Append(calls, Call("search_tv_by_season", NoYear))
              /\ failed' = (failed \/ ~res.ok)
              /\ IF Truthy(out.ret)
                 THEN /\ info' = SetType(out.ret, TV)
                      /\ pc' = "done"
                      /\ years' = <<>>
                      /\ Observe(res, failing, out.fetched)
                 ELSE /\ info' = out.ret
                      /\ pc' = "tv"
                      /\ years' = years
                      /\ Observe(NoAnswer, {}, <<>>)
    /\ UNCHANGED <<op, q, cat, locale, raised, webvars, infovars>>

\* lines 223-230: one pass of the TV loop over year_range
TvNamePass ==
    /\ pc = "tv"
    /\ years # <<>>
    /\ \E res \in TvAnswers(Head(years)) : \E failing \in SUBSET IdsOf(res) :
          LET year == Head(years)
              out == search_tv_by_name(q.name, year, res, failing, locale)
          IN  /\ calls' = Append(calls, Call("search_tv_by_name", year))
              /\ failed' = (failed \/ ~res.ok)
              /\ info' = SetType(out.ret, TV)
              /\ IF Truthy(out.ret) \/ Tail(years) = <<>>
                 THEN /\ pc' = "done"
                      /\ years' = <<>>
                      /\ Observe(res, failing, out.fetched)
                 ELSE /\ pc' = "tv"
                      /\ years' = Tail(years)
                      /\ Observe(NoAnswer, {}, <<>>)
    /\ UNCHANGED <<op, q, cat, locale, raised, webvars, infovars>>

(***************************************************************************)
(* match_multi                                                             *)
(***************************************************************************)

MultiNames == {NameQ, NameLong}

MatchMulti ==
    /\ pc = "idle"
    /\ \E name \in MultiNames : \E c \in MultiCats : \E res \in {Failed, Ok(c)} :
       \E failing \in SUBSET IdsOf(res) :
          LET out == match_multi(name, res, failing, locale)
          IN  /\ q' = Query(name, UNKNOWN, NoYear, NoYear, NoSeason, <<>>)
              /\ cat' = c
              /\ failed' = ~res.ok
              /\ Observe(res, failing, out.fetched)
              /\ info' = out.ret
    /\ op' = "match_multi"
    /\ pc' = "done"
    /\ calls' = <<Call("search.multi", NoYear)>>
    /\ years' = <<>>
    /\ raised' = ""
    /\ UNCHANGED <<locale, webvars, infovars>>

\* the caller takes the result; the engine keeps nothing of the call
Return ==
    /\ pc \in {"done", "again", "same"}
    /\ pc' = "idle"
    /\ op' = "none"
    /\ q' = NoQuery
    /\ cat' = <<>>
    /\ years' = <<>>
    /\ info' = NoneV
    /\ calls' = <<>>
    /\ failed' = FALSE
    /\ Observe(NoAnswer, {}, <<>>)
    /\ raised' = ""
    /\ page' = NoPage
    /\ detail' = NoDetail
    /\ again' = NoneV
    /\ names' = <<>>
    /\ UNCHANGED <<locale, cache, backoff>>

Next ==
    \/ Match
    \/ MovieNamePass
    \/ SeasonSearch
    \/ TvNamePass
    \/ MatchMulti
    \/ Return

Spec == Init /\ [][Next]_vars

(***************************************************************************)
(* match_web                                                               *)
(***************************************************************************)

\* the href "/<kind>/<id>" of an anchor
Href(kind, id) == [kind |-> kind, id |-> id]

\* <a data-id=... data-media-type=... href=...>
Anchor(media_type, href) == [media_type |-> media_type, href |-> href]

WebAnchors ==
    {Anchor("tv", Href("tv", 1)),
     Anchor("movie", Href("movie", 1)),
     Anchor("tv", Href("movie", 2)),
     Anchor("person", Href("person", 9))}

\* the longest page, in anchors
MaxLinks == 2

RECURSIVE SeqsUpTo(_, _)
SeqsUpTo(S, n) ==
    IF n = 0 THEN {<<>>}
    ELSE LET shorter == SeqsUpTo(S, n - 1)
         IN  shorter \cup {Append(xs, x) : xs \in shorter, x \in S}

Pages ==
    {Page("no response", "", <<>>), Page("429", "", <<>>), Page("500", "", <<>>),
     Page("200", "", <<>>), Page("200", "unparsable", <<>>)}
    \cup {Page("200", "html", anchors) : anchors \in SeqsUpTo(WebAnchors, MaxLinks)}

\* lines 531-534: the hrefs the xpath selects
xpath_links(mtype, anchors) ==
    LET Chosen(a) == mtype = TV => a.media_type = "tv"
        picked == SelectSeq(anchors, Chosen)
    IN  [i \in 1..Len(picked) |-> picked[i].href]

\* lines 535-539
RECURSIVE KeepLinks(_, _)
KeepLinks(links, tmdb_links) ==
    IF links = <<>> THEN tmdb_links
    ELSE LET link == Head(links)
         IN  IF link.kind \notin {"tv", "movie"}
             THEN KeepLinks(Tail(links), tmdb_links)
             ELSE IF \E i \in 1..Len(tmdb_links) : tmdb_links[i] = link
                  THEN KeepLinks(Tail(links), tmdb_links)
                  ELSE KeepLinks(Tail(links), Append(tmdb_links, link))

\* what a run of the body of match_web yields: the value returned or the
\* exception raised, whether the page was requested, the detail calls made
WebOutcome(ret, exc, requested, calls_made) ==
    [ret |-> ret, raised |-> exc, requested |-> requested, fetched |-> calls_made]

\* a body that returns whatever the single link resolves to
match_web_unchecked(name, mtype, answer, failing, lang) ==
    IF Falsy(name) THEN WebOutcome(NoneV, "", FALSE, <<>>)
    ELSE IF is_chinese(name) THEN WebOutcome(EmptyV, "", FALSE, <<>>)
    ELSE IF answer.status = "no response" THEN WebOutcome(NoneV, "", TRUE, <<>>)
    ELSE IF answer.status = "429"
    THEN WebOutcome(NoneV, "APIRateLimitException", TRUE, <<>>)
    ELSE IF answer.status # "200" THEN WebOutcome(EmptyV, "", TRUE, <<>>)
    ELSE IF answer.text # "html" THEN WebOutcome(EmptyV, "", TRUE, <<>>)
    ELSE LET tmdb_links == KeepLinks(xpath_links(mtype, answer.anchors), <<>>)
         IN  IF Len(tmdb_links) = 1
             THEN LET link == tmdb_links[1]
                      link_type == IF link.kind = "tv" THEN TV ELSE MOVIE
                  IN  WebOutcome(get_info(link_type, movie_detail(link.id, failing),
                                          tv_detail(link.id, failing), lang),
                                 "", TRUE, <<Fetch(link_type, link.id)>>)
             ELSE WebOutcome(EmptyV, "", TRUE, <<>>)

\* a body that answers HTTP 429 with an empty result
match_web_quiet(name, mtype, answer, failing, lang) ==
    IF answer.status = "429" /\ ~Falsy(name) /\ ~is_chinese(name)
    THEN WebOutcome(EmptyV, "", TRUE, <<>>)
    ELSE match_web_unchecked(name, mtype, answer, failing, lang)

\* a body that requests the page before it looks at the script of the name
match_web_eager(name, mtype, answer, failing, lang) ==
    IF Falsy(name) THEN WebOutcome(NoneV, "", FALSE, <<>>)
    ELSE IF is_chinese(name) THEN WebOutcome(EmptyV, "", TRUE, <<>>)
    ELSE match_web_unchecked(name, mtype, answer, failing, lang)

\* a body that resolves the first link of a page with several
match_web_first(name, mtype, answer, failing, lang) ==
    LET first == IF answer.anchors = <<>> THEN <<>> ELSE <<Head(answer.anchors)>>
    IN  match_web_unchecked(name, mtype, [answer EXCEPT !.anchors = first], failing, lang)

\* lines 505-566: the body of match_web, answer being what get_res returns
match_web(name, mtype, answer, failing, lang) ==
    IF Falsy(name) THEN WebOutcome(NoneV, "", FALSE, <<>>)
    ELSE IF is_chinese(name) THEN WebOutcome(EmptyV, "", FALSE, <<>>)
    ELSE IF answer.status = "no response" THEN WebOutcome(NoneV, "", TRUE, <<>>)
    ELSE IF answer.status = "429"
    THEN WebOutcome(NoneV, "APIRateLimitException", TRUE, <<>>)
    ELSE IF answer.status # "200" THEN WebOutcome(EmptyV, "", TRUE, <<>>)
    ELSE IF answer.text = "" THEN WebOutcome(EmptyV, "", TRUE, <<>>)
    ELSE IF answer.text = "unparsable" THEN WebOutcome(EmptyV, "", TRUE, <<>>)
    ELSE LET tmdb_links == KeepLinks(xpath_links(mtype, answer.anchors), <<>>)
         IN  IF Len(tmdb_links) = 1
             THEN LET link == tmdb_links[1]
                      link_type == IF link.kind = "tv" THEN TV ELSE MOVIE
                      tmdbinfo == get_info(link_type, movie_detail(link.id, failing),
                                           tv_detail(link.id, failing), lang)
                      calls_made == <<Fetch(link_type, link.id)>>
                  IN  IF Truthy(tmdbinfo) /\ mtype = TV /\ tmdbinfo.media_type # TV
                      THEN WebOutcome(EmptyV, "", TRUE, calls_made)
                      ELSE WebOutcome(tmdbinfo, "", TRUE, calls_made)
             ELSE WebOutcome(EmptyV, "", TRUE, <<>>)

WebNames == {EmptyStr, NameQ, NameCJK}

WebQueries ==
    {Query(name, mtype, NoYear, NoYear, NoSeason, <<>>) :
        name \in WebNames, mtype \in {MOVIE, TV}}

\* the result cache holds the result of one call under the arguments of
\* that call
Entry(name, mtype, value) == [name |-> name, mtype |-> mtype, value |-> value]

cache_hit(entry, name, mtype) ==
    entry # NoEntry /\ entry.name = name /\ entry.mtype = mtype

\* what the cache may hold after the body has run: it keeps no result of a
\* call that raised, and may or may not keep one that was returned
cache_after(entry, name, mtype, out) ==
    IF out.raised # "" THEN {entry} ELSE {entry, Entry(name, mtype, out.ret)}

\* the limiter rejects a call made inside its backoff window
limiter_rejects(in_backoff) == in_backoff

\* the backoff window after the body has run: a rate-limit failure opens it
limiter_after(out) == out.raised = "APIRateLimitException"

\* lines 503-505: the call of match_web goes through the cache, then the
\* limiter
MatchWeb ==
    /\ pc = "idle"
    /\ \E query \in WebQueries :
          /\ q' = query
          /\ IF cache_hit(cache, query.name, query.mtype)
             THEN pc' = "done" /\ info' = cache.value /\ raised' = ""
             ELSE IF limiter_rejects(backoff)
                  THEN pc' = "done" /\ info' = NoneV /\ raised' = "RateLimited"
                  ELSE pc' = "web" /\ info' = NoneV /\ raised' = ""
    /\ op' = "match_web"
    /\ calls' = <<>>
    /\ Observe(NoAnswer, {}, <<>>)
    /\ UNCHANGED <<cat, years, failed, locale, webvars, infovars>>

LinkIds(answer) == {answer.anchors[i].href.id : i \in 1..Len(answer.anchors)}

\* lines 505-566 under the two decorators: the body runs, the limiter sees
\* a rate-limit failure, the cache may keep what the body returned
WebBody ==
    /\ pc = "web"
    /\ \E answer \in Pages : \E failing \in SUBSET LinkIds(answer) :
          LET out == match_web(q.name, q.mtype, answer, failing, locale)
          IN  /\ info' = out.ret
              /\ raised' = out.raised
              /\ page' = IF out.requested THEN answer ELSE NoPage
              /\ Observe(NoAnswer,
                         IF out.fetched = <<>> THEN {}
                         ELSE failing \cap {out.fetched[1].id},
                         out.fetched)
              /\ backoff' = limiter_after(out)
              /\ cache' \in cache_after(cache, q.name, q.mtype, out)
    /\ pc' = "done"
    /\ calls' = <<Call("match_web", NoYear)>>
    /\ UNCHANGED <<op, q, cat, years, failed, locale, infovars>>

\* the backoff deadline of the limiter passes
BackoffElapses ==
    /\ pc = "idle"
    /\ backoff
    /\ backoff' = FALSE
    /\ UNCHANGED <<pc, op, q, cat, years, info, calls, resp, failed, bad, fetched,
                   locale, page, cache, raised, infovars>>

\* the entry of the cache outlives its time to live, or is evicted
Expire ==
    /\ pc = "idle"
    /\ cache # NoEntry
    /\ cache' = NoEntry
    /\ UNCHANGED <<pc, op, q, cat, years, info, calls, resp, failed, bad, fetched,
                   locale, page, backoff, raised, infovars>>

NextWeb ==
    \/ MatchWeb
    \/ WebBody
    \/ BackoffElapses
    \/ Expire
    \/ Return

SpecWeb == Init /\ [][NextWeb]_vars

(***************************************************************************)
(* get_info and __compare_names                                            *)
(***************************************************************************)

\* a CJK name in traditional script, and a second one in simplified script
NameTrad == <<Ideograph, IdeographTrad>>

NameCJK2 == <<IdeographSimp, Ideograph>>

\* the longest alternative_titles list of a detail given to get_info
MaxAlts == 2

AltItems ==
    {AltTitle(iso, t) : iso \in {"CN", "US"}, t \in {NameCJK, NameTrad, NameQ, NoneStr}}

TransLists ==
    {<<>>,
     <<Translation("SG", NameCJK2, NameCJK2)>>,
     <<Translation("SG", NameLong, NameLong)>>,
     <<Translation("US", NameLong, NameLong), Translation("HK", NameTrad, NameTrad),
       Translation("TW", NameTrad, NameTrad)>>,
     <<Translation("US", NoneStr, NoneStr), Translation("SG", NoneStr, NoneStr)>>}

Genre(id) == [id |-> id]

\* details that differ in their titles
TitledMovies ==
    {[MovieRec(7, t, ot, 20050327) EXCEPT
         !.alternative_titles.titles = alts,
         !.translations = trs,
         !.original_language = IF ot = NameOther THEN "en" ELSE "zh",
         !.genres = <<Genre(28), Genre(12)>>] :
       t \in {NameQ, NameCJK}, ot \in {NameOther, NameCJK2},
       alts \in SeqsUpTo(AltItems, MaxAlts), trs \in TransLists}

TitledTvs ==
    {[TvRec(7, n, on, 20050327) EXCEPT
         !.alternative_titles.results = alts,
         !.translations = trs,
         !.original_language = IF on = NameOther THEN "en" ELSE "zh",
         !.genres = <<Genre(18)>>] :
       n \in {NameQ, NameCJK}, on \in {NameOther, NameCJK2},
       alts \in SeqsUpTo(AltItems, MaxAlts), trs \in TransLists}

\* certifications of release_dates and ratings of content_ratings
CertR == <<"R">>

CertPG == <<"PG">>

RatingMA == <<"TV-MA">>

Rating14 == <<"TV-14">>

Countries == {"CN", "US", "DE", ""}

ReleaseDate(certification) == [certification |-> certification]

ReleaseItem(iso, dates) == [iso_3166_1 |-> iso, release_dates |-> dates]

RatingItem(iso, rating) == [iso_3166_1 |-> iso, rating |-> rating]

ReleaseItems ==
    {ReleaseItem(iso, dates) :
        iso \in Countries,
        dates \in {<<>>, <<ReleaseDate(EmptyStr)>>, <<ReleaseDate(CertR)>>,
                   <<ReleaseDate(CertPG), ReleaseDate(CertR)>>}}

RatingItems ==
    {RatingItem(iso, rating) : iso \in Countries, rating \in {EmptyStr, RatingMA, Rating14}}

\* the longest results list of release_dates and of content_ratings
MaxRatings == 2

\* details that differ in their rating data
RatedMovies ==
    {[MovieRec(8, NameQ, NameQ, 20050327) EXCEPT
         !.release_dates = rds, !.content_ratings = crs] :
       rds \in SeqsUpTo(ReleaseItems, MaxRatings),
       crs \in {<<>>, <<RatingItem("US", RatingMA)>>,
                <<RatingItem("CN", Rating14), RatingItem("US", RatingMA)>>}}

RatedTvs ==
    {[TvRec(8, NameQ, NameQ, 20050327) EXCEPT
         !.release_dates = rds, !.content_ratings = crs] :
       rds \in {<<>>, <<ReleaseItem("US", <<ReleaseDate(CertR)>>)>>},
       crs \in SeqsUpTo(RatingItems, MaxRatings)}

\* what a detail call may return: None when it raised, {} when the catalog
\* answered with nothing, else a detail
MovieDetailAnswers ==
    {NoneV, EmptyV} \cup TitledMovies \cup RatedMovies
        \cup {MovieDetails[i] : i \in MovieIds}

TvDetailAnswers ==
    {NoneV, EmptyV} \cup TitledTvs \cup RatedTvs \cup {TvDetails[i] : i \in TvIds}

\* the detail calls of get_info for a type: for a movie or a TV show one
\* call is made, otherwise both, for the same id
DetailAnswers(mtype) ==
    IF mtype = MOVIE THEN {Details(m, NoneV) : m \in MovieDetailAnswers}
    ELSE IF mtype = TV THEN {Details(NoneV, t) : t \in TvDetailAnswers}
    ELSE {Details(m, t) :
            m \in {NoneV, EmptyV} \cup {MovieDetails[i] : i \in MovieIds},
            t \in {NoneV, EmptyV} \cup {TvDetails[i] : i \in TvIds}}

\* lines 568-626: a call of get_info
GetInfo ==
    /\ pc = "idle"
    /\ \E mtype \in {MOVIE, TV, UNKNOWN} : \E answers \in DetailAnswers(mtype) :
          /\ q' = Query(EmptyStr, mtype, NoYear, NoYear, NoSeason, <<>>)
          /\ detail' = answers
          /\ info' = get_info(mtype, answers.movie, answers.tv, locale)
    /\ pc' = "done"
    /\ op' = "get_info"
    /\ again' = NoneV
    /\ raised' = ""
    /\ UNCHANGED <<cat, years, calls, resp, failed, bad, fetched, locale, webvars, names>>

\* the record a get_info call has enriched in place, where the catalog
\* client hands the same object to the next call
Enriched(answer, mtype) ==
    IF Truthy(info) /\ info.media_type = mtype THEN info ELSE answer

\* the same get_info call once more: the detail calls return what they
\* returned before, as fresh records or as the objects the first call enriched
GetInfoAgain ==
    /\ pc = "done"
    /\ op = "get_info"
    /\ \E same_object \in BOOLEAN :
          /\ again' = IF same_object
                      THEN get_info(q.mtype, Enriched(detail.movie, MOVIE),
                                    Enriched(detail.tv, TV), locale)
                      ELSE get_info(q.mtype, detail.movie, detail.tv, locale)
          /\ pc' = IF same_object THEN "same" ELSE "again"
    /\ UNCHANGED <<op, q, cat, years, info, calls, resp, failed, bad, fetched, locale,
                   webvars, raised, detail, names>>

\* names with whitespace in front, with whitespace behind, with punctuation,
\* and a substring of the query name
NameLead == <<" ", "A", " ", "b">>

NameTrail == <<"A", " ", "b", " ">>

NamePunct == <<"A", ":", " ", "b">>

NameShort == <<"A">>

\* the query name with its whitespace elsewhere, and without whitespace
NameMoved == <<"A", "b", " ">>

NameJoined == <<"a", "b">>

NameStrings ==
    {NoneStr, EmptyStr, NameQ, NameQVar, NameLong, NameOther, NameLead, NameTrail,
     NamePunct, NameShort, NameMoved, NameJoined}

\* the longest tmdb_names list
MaxNames == 2

\* the value of a Python bool
Bool(b) == [kind |-> "bool", value |-> b]

\* lines 122-139: a call of __compare_names with a name or None and a list
\* of strings
CompareNames ==
    /\ pc = "idle"
    /\ \E file_name \in NameStrings :
       \E tmdb_names \in SeqsUpTo(NameStrings \ {NoneStr}, MaxNames) :
          /\ q' = Query(file_name, UNKNOWN, NoYear, NoYear, NoSeason, <<>>)
          /\ names' = tmdb_names
          /\ info' = Bool(compare_names(file_name, tmdb_names))
    /\ pc' = "done"
    /\ op' = "compare_names"
    /\ raised' = ""
    /\ UNCHANGED <<cat, years, calls, resp, failed, bad, fetched, locale, webvars,
                   detail, again>>

NextInfo ==
    \/ GetInfo
    \/ GetInfoAgain
    \/ CompareNames
    \/ Return

SpecInfo == Init /\ [][NextInfo]_vars

(***************************************************************************)
(* search_movies and search_tvs                                            *)
(***************************************************************************)

\* needle in hay on strings
Contains(hay, needle) ==
    \E i \in 0..(Len(hay) - Len(needle)) : SubSeq(hay, i + 1, i + Len(needle)) = needle

\* a Python list as a returned value
ListV(items) == [kind |-> "list", items |-> items]

\* what a listing call ends with: the list returned, or the exception raised
Listed(items, exc) == [ret |-> IF exc = "" THEN ListV(items) ELSE NoneV, exc |-> exc]

\* lines 66-69: the loop of search_movies; `title in movie.get("title")`
\* raises TypeError on a movie whose title is None
RECURSIVE MoviesListing(_, _, _)
MoviesListing(title, movies, ret_infos) ==
    IF movies = <<>> THEN Listed(ret_infos, "")
    ELSE LET movie == Head(movies)
         IN  IF movie.title = NoneStr THEN Listed(<<>>, "TypeError")
             ELSE IF Contains(movie.title, title)
             THEN MoviesListing(title, Tail(movies),
                                Append(ret_infos, [movie EXCEPT !.media_type = MOVIE]))
             ELSE MoviesListing(title, Tail(movies), ret_infos)

\* search_movies; res is what search.movies answers, and a failure of that
\* call is not caught here
search_movies(title, year, res) ==
    IF Falsy(title) THEN Listed(<<>>, "")
    ELSE IF ~res.ok THEN Listed(<<>>, "TMDbException")
    ELSE MoviesListing(title, res.list, <<>>)

\* lines 83-86: the loop of search_tvs
RECURSIVE TvsListing(_, _, _)
TvsListing(title, tvs, ret_infos) ==
    IF tvs = <<>> THEN Listed(ret_infos, "")
    ELSE LET tv == Head(tvs)
         IN  IF tv.name = NoneStr THEN Listed(<<>>, "TypeError")
             ELSE IF Contains(tv.name, title)
             THEN TvsListing(title, Tail(tvs),
                             Append(ret_infos, [tv EXCEPT !.media_type = TV]))
             ELSE TvsListing(title, Tail(tvs), ret_infos)

\* search_tvs; res is what search.tv_shows answers
search_tvs(title, year, res) ==
    IF Falsy(title) THEN Listed(<<>>, "")
    ELSE IF ~res.ok THEN Listed(<<>>, "TMDbException")
    ELSE TvsListing(title, res.list, <<>>)

\* summaries the catalog sends without a title or a name
UntitledMovie == MovieRec(10, NoneStr, NameQ, 20050327)

UnnamedTv == TvRec(10, NoneStr, NameQ, 20050327)

ListedMovies == DistinctSeqs(MovieSummaries \cup {UntitledMovie}, MaxCands)

ListedTvs == DistinctSeqs(TvSummaries \cup {UnnamedTv}, MaxCands)

ListingTitles == {EmptyStr, NameQ, NameShort}

\* lines 54-69: a call of search_movies
SearchMovies ==
    /\ pc = "idle"
    /\ \E title \in ListingTitles : \E year \in {NoYear, 2005} :
       \E c \in ListedMovies : \E res \in {Failed, Ok(c)} :
          LET out == search_movies(title, year, res)
          IN  /\ q' = Query(title, MOVIE, year, NoYear, NoSeason, <<>>)
              /\ cat' = c
              /\ calls' = IF Falsy(title) THEN <<>> ELSE <<Call("search.movies", year)>>
              /\ failed' = (~Falsy(title) /\ ~res.ok)
              /\ Observe(IF Falsy(title) THEN NoAnswer ELSE res, {}, <<>>)
              /\ info' = out.ret
              /\ raised' = out.exc
    /\ op' = "search_movies"
    /\ pc' = "done"
    /\ years' = <<>>
    /\ UNCHANGED <<locale, webvars, infovars>>

\* lines 71-86: a call of search_tvs
SearchTvs ==
    /\ pc = "idle"
    /\ \E title \in ListingTitles : \E year \in {NoYear, 2005} :
       \E c \in ListedTvs : \E res \in {Failed, Ok(c)} :
          LET out == search_tvs(title, year, res)
          IN  /\ q' = Query(title, TV, year, NoYear, NoSeason, <<>>)
              /\ cat' = c
              /\ calls' = IF Falsy(title) THEN <<>> ELSE <<Call("search.tv_shows", year)>>
              /\ failed' = (~Falsy(title) /\ ~res.ok)
              /\ Observe(IF Falsy(title) THEN NoAnswer ELSE res, {}, <<>>)
              /\ info' = out.ret
              /\ raised' = out.exc
    /\ op' = "search_tvs"
    /\ pc' = "done"
    /\ years' = <<>>
    /\ UNCHANGED <<locale, webvars, infovars>>

NextListing ==
    \/ SearchMovies
    \/ SearchTvs
    \/ Return

SpecListing == Init /\ [][NextListing]_vars

(***************************************************************************)
(* Seasons and episode groups                                              *)
(***************************************************************************)

\* the longest list of episode groups, of episodes of a group, and of
\* seasons of a show
MaxGroups == 2

MaxEpisodes == 2

MaxSeasons == 2

\* an episode of a group as __season_match reads it
Aired(d) == [air_date |-> d]

\* the episodes of a group: none, or a first episode with a date of 2005 or
\* 2006, without air_date, or with one that is not of the form YYYY-MM-DD
AiredLists ==
    {<<>>, <<Aired(20060101)>>, <<Aired(20050327), Aired(20060101)>>,
     <<Aired(NoDate)>>, <<Aired(Malformed)>>}

GroupSeason(order, episodes) == [order |-> order, episodes |-> episodes]

\* lists of episode groups; the catalog numbers the groups of an episode
\* group by position, so no two of them have the same order
GroupLists(episode_lists, n) ==
    {g \in SeqsUpTo({GroupSeason(o, e) : o \in 1..(n + 1), e \in episode_lists}, n) :
        \A i, j \in 1..Len(g) : i # j => g[i].order # g[j].order}

\* lines 338-365: a call of __season_match on a fetched show
SeasonMatch ==
    /\ pc = "idle"
    /\ \E tv \in {TvDetails[1], TvDetails[3]} : \E season_year \in {2005, 2006} :
       \E season_number \in {1, 2} : \E group_seasons \in GroupLists(AiredLists, MaxGroups) :
          /\ q' = Query(EmptyStr, TV, NoYear, season_year, season_number, group_seasons)
          /\ detail' = Details(NoneV, SetType(tv, TV))
          /\ info' = Bool(season_match(SetType(tv, TV), season_year, season_number,
                                       group_seasons))
    /\ pc' = "done"
    /\ op' = "season_match"
    /\ raised' = ""
    /\ UNCHANGED <<cat, years, calls, resp, failed, bad, fetched, locale, webvars,
                   again, names>>

\* a Python dict as a returned value, as the sequence of its items
DictV(items) == [kind |-> "dict", items |-> items]

\* the seasons attribute of a show: entries with and without season number,
\* the specials (season 0) among them
SeasonItems == {SeasonInfo(n, d) : n \in {NoSeason, 0, 1, 2}, d \in {20050327, NoDate}}

\* lines 403-439: a call of __get_tv_seasons
TvSeasons ==
    /\ pc = "idle"
    /\ \E seasons \in SeqsUpTo(SeasonItems, MaxSeasons) :
          LET tv == [TvRec(7, NameQ, NameQ, 20050327) EXCEPT !.seasons = seasons]
          IN  /\ detail' = Details(NoneV, tv)
              /\ info' = DictV(get_tv_seasons(tv))
    /\ q' = Query(EmptyStr, TV, NoYear, NoYear, NoSeason, <<>>)
    /\ pc' = "done"
    /\ op' = "get_tv_seasons"
    /\ raised' = ""
    /\ UNCHANGED <<cat, years, calls, resp, failed, bad, fetched, locale, webvars,
                   again, names>>

\* an episode of a group as the catalog sends it
Episode(id, n) == [id |-> id, episode_number |-> n]

EpisodeItems == {Episode("a", 5), Episode("b", 1)}

\* a group that keeps the episode numbers of the catalog
get_tv_group_seasons_as_sent(res) == IF ~res.ok THEN <<>> ELSE res.list

\* get_tv_group_seasons; res is what tv.group_episodes answers
get_tv_group_seasons(res) ==
    IF ~res.ok THEN <<>>
    ELSE [g \in 1..Len(res.list) |->
            [res.list[g] EXCEPT !.episodes =
                [idx \in 1..Len(res.list[g].episodes) |->
                    [res.list[g].episodes[idx] EXCEPT !.episode_number = idx]]]]

\* lines 1328-1350: a call of get_tv_group_seasons
GroupSeasons ==
    /\ pc = "idle"
    /\ \E groups \in GroupLists(SeqsUpTo(EpisodeItems, MaxEpisodes), MaxGroups) :
       \E res \in {Failed, Ok(groups)} :
          /\ Observe(res, {}, <<>>)
          /\ failed' = ~res.ok
          /\ info' = ListV(get_tv_group_seasons(res))
    /\ q' = NoQuery
    /\ calls' = <<Call("tv.group_episodes", NoYear)>>
    /\ pc' = "done"
    /\ op' = "get_tv_group_seasons"
    /\ raised' = ""
    /\ UNCHANGED <<cat, years, locale, webvars, infovars>>

NextSeason ==
    \/ SeasonMatch
    \/ TvSeasons
    \/ GroupSeasons
    \/ Return

SpecSeason == Init /\ [][NextSeason]_vars

(***************************************************************************)
(* Qbittorrent.get_torrent_id_by_tag                                       *)
(***************************************************************************)

\* range(1, 10): the loop index runs from RangeStart up to, not including,
\* RangeStop
RangeStart == 1

RangeStop == 10

\* time.sleep(3)
SleepSeconds == 3

\* a Python string as a returned value
StrV(text) == [kind |-> "str", value |-> text]

\* a call the operation makes, with its argument or its outcome
QbCall(fn, what) == [fn |-> fn, what |-> what]

\* what get_torrents gives for the tag: the hashes of the tagged torrents
\* and whether an error occurred (with an error the list is empty)
Torrents(hashes, error) == [hashes |-> hashes, error |-> error]

TorrentAnswers ==
    {Torrents(<<>>, TRUE), Torrents(<<>>, FALSE), Torrents(<<"h1">>, FALSE),
     Torrents(<<"h2", "h1">>, FALSE)}

\* __get_last_add_torrentid_by_tag: the hash of the first torrent, None
\* without a torrent
get_last_add_torrentid_by_tag(answer) ==
    IF answer.hashes = <<>> THEN NoneV ELSE StrV(answer.hashes[1])

\* the get_torrents calls made so far
Polls == SelectSeq(calls, LAMBDA cl : cl.fn = "get_torrents")

\* lines 217-223: the call of get_torrent_id_by_tag up to its loop
GetTorrentIdByTag ==
    /\ pc = "idle"
    /\ pc' = "poll"
    /\ op' = "get_torrent_id_by_tag"
    /\ q' = NoQuery
    /\ info' = NoneV
    /\ calls' = <<>>
    /\ failed' = FALSE
    /\ raised' = ""
    /\ UNCHANGED <<cat, years, resp, bad, fetched, locale, webvars, infovars>>

\* lines 224-233: one iteration of the loop, and the return after the last
\* one or after the break
PollTorrent ==
    /\ pc = "poll"
    /\ op = "get_torrent_id_by_tag"
    /\ \E answer \in TorrentAnswers :
          LET i == RangeStart + Len(Polls)
              torrent_id == get_last_add_torrentid_by_tag(answer)
              polled == calls \o <<QbCall("time.sleep", [seconds |-> SleepSeconds]),
                                   QbCall("get_torrents", answer)>>
          IN  /\ i < RangeStop
              /\ info' = torrent_id
              /\ failed' = (failed \/ answer.error)
              /\ IF torrent_id # NoneV
                 THEN /\ calls' = Append(polled,
                                         QbCall("delete_torrents_tag",
                                                [hash |-> torrent_id.value]))
                      /\ pc' = "done"
                 ELSE /\ calls' = polled
                      /\ pc' = IF i + 1 < RangeStop THEN "poll" ELSE "done"
    /\ UNCHANGED <<op, q, cat, years, resp, bad, fetched, locale, raised, webvars,
                   infovars>>

NextQb ==
    \/ GetTorrentIdByTag
    \/ PollTorrent
    \/ Return

SpecQb == Init /\ [][NextQb]_vars

(***************************************************************************)
(* The four operations together                                            *)
(***************************************************************************)

\* match, match_multi, get_info and match_web side by side; the web call
\* runs without cache entries and outside any backoff window, which
\* SpecWeb covers
NextEngine ==
    \/ Next
    \/ NextInfo
    \/ MatchWeb
    \/ (WebBody /\ UNCHANGED <<cache, backoff>>)

SpecEngine == Init /\ [][NextEngine]_vars

(***************************************************************************)
(* Properties                                                              *)
(***************************************************************************)

IsPrefix(a, b) == Len(a) <= Len(b) /\ a = SubSeq(b, 1, Len(a))

\* the years of the name searches issued so far, in order
NameSearchYears ==
    LET name_calls == SelectSeq(calls, LAMBDA c :
                         c.fn \in {"search_movie_by_name", "search_tv_by_name"})
    IN  [i \in 1..Len(name_calls) |-> name_calls[i].year]

\* the window the claim states for the running query
Window == IF q.year # NoYear THEN <<q.year, q.year + 1, q.year - 1>> ELSE <<NoYear>>

MatchRunning == op = "match" /\ ~Falsy(q.name)

C1_WindowState ==
    MatchRunning =>
       /\ IsPrefix(NameSearchYears, Window)
       /\ Truthy(info) => pc = "done"
       /\ (pc = "done" /\ ~Truthy(info)) => NameSearchYears = Window
       /\ (pc = "done" /\ q.mtype # TV) => Len(NameSearchYears) >= 1
       /\ pc \in {"movie", "tv"} =>
             years = SubSeq(Window, Len(NameSearchYears) + 1, Len(Window))

\* C1: match with a year Y issues its name searches for Y, Y+1, Y-1 in that
\* order (movie and TV path alike), a year of the window is searched only
\* while every earlier pass returned nothing, and once a pass has returned a
\* record no further search is issued; without a year there is one pass, with
\* no year filter.
C1_YearWindow ==
    /\ []C1_WindowState
    /\ [][(MatchRunning /\ Truthy(info)) => (pc' = "idle" /\ calls' = <<>>)]_vars

\* the second pass (Y+1) returned a record: the third year is never searched
C1_Witness ==
    /\ pc = "done"
    /\ op = "match"
    /\ q.year = 2005
    /\ NameSearchYears = <<2005, 2006>>
    /\ Truthy(info)

\* the normal form two names are compared in
Norm(x) == upper(strip(clear(x)))

SameName(a, b) == ~Falsy(a) /\ ~Falsy(b) /\ Norm(a) = Norm(b)

\* record r has a title, an original title or an alias equal to name
RecordMatches(name, r) ==
    \/ SameName(name, r.title)
    \/ SameName(name, r.original_title)
    \/ SameName(name, r.name)
    \/ SameName(name, r.original_name)
    \/ \E i \in 1..Len(r.names) : SameName(name, r.names[i])

\* the catalog's full record of candidate c of a search for type mt
FullRecord(c, mt) ==
    IF mt = TV THEN Normalize(SetType(TvDetails[c.id], TV), locale)
    ELSE Normalize(SetType(MovieDetails[c.id], MOVIE), locale)

\* the type a candidate of the running operation is looked up as
CandType(c) ==
    IF op = "match_multi" THEN (IF c.media_type = "movie" THEN MOVIE ELSE TV)
    ELSE IF q.mtype = TV THEN TV ELSE MOVIE

\* candidate c of the catalog could be accepted for the name at all
CandMatches(name, c) ==
    /\ c.media_type # "person"
    /\ RecordMatches(name, c) \/ RecordMatches(name, FullRecord(c, CandType(c)))

Returned == pc = "done" /\ op \in {"match", "match_multi"}

\* C2: a record returned by match or match_multi has a title, an original
\* title or an alias equal to the query name after normalisation, and when
\* no candidate of the catalog has one the result is empty.
C2_OnlyExactMatches ==
    Returned =>
       /\ Truthy(info) => RecordMatches(q.name, info)
       /\ (\A i \in 1..Len(cat) : ~CandMatches(q.name, cat[i])) => ~Truthy(info)

\* a record accepted on an alias alone
C2_Witness ==
    /\ Returned
    /\ Truthy(info)
    /\ ~SameName(q.name, info.title)
    /\ ~SameName(q.name, info.original_title)
    /\ ~SameName(q.name, info.name)
    /\ ~SameName(q.name, info.original_name)

\* the candidate accepted at once: title or original title equals the name
TitleMatch(name, c) == SameName(name, c.title) \/ SameName(name, c.original_title)

\* a movie search without year answered with several candidates, all of
\* which match by title
C3_Case ==
    /\ pc = "done"
    /\ op = "match"
    /\ q.mtype # TV
    /\ q.year = NoYear
    /\ resp.ok
    /\ Len(resp.list) >= 2
    /\ \A i \in 1..Len(resp.list) : TitleMatch(q.name, resp.list[i])

\* C3: of several title-matching movie candidates of a search without year,
\* match returns the one with the latest release date, in whatever order the
\* catalog listed them (the first listed among equal dates); a candidate
\* without release date comes after every dated one.
C3_LatestWins ==
    C3_Case =>
       /\ Truthy(info)
       /\ \E i \in 1..Len(resp.list) :
             /\ info.id = resp.list[i].id
             /\ \A j \in 1..Len(resp.list) :
                   resp.list[j].release_date <= resp.list[i].release_date
             /\ \A j \in 1..(i - 1) :
                   resp.list[j].release_date < resp.list[i].release_date

\* the catalog listed the older (or undated) candidate first, the later wins
C3_Witness ==
    /\ C3_Case
    /\ resp.list[1].release_date < resp.list[2].release_date
    /\ info.id = resp.list[2].id

\* a TV query for season 1 without episode groups
C4_Query ==
    /\ op = "match"
    /\ q.mtype = TV
    /\ ~Falsy(q.name)
    /\ q.season_number = 1
    /\ q.group_seasons = <<>>

\* a TV candidate whose name matches the query and whose seasons list is
\* [{season_number: 1, air_date: 2005-03-27}]
C4_Candidate(c) ==
    /\ SameName(q.name, c.name)
    /\ TvDetails[c.id].seasons = <<SeasonInfo(1, 20050327)>>

SeasonCall == Call("search_tv_by_season", NoYear)

\* C4 as stated: with that candidate the only one of the catalog and every
\* search answered, the query resolves to it with season-year 2005 and does
\* not resolve to it with season-year 2006.
C4_Original ==
    (pc = "done" /\ C4_Query /\ ~failed /\ Len(cat) = 1 /\ C4_Candidate(cat[1])) =>
       /\ q.season_year = 2005 => (Truthy(info) /\ info.id = cat[1].id)
       /\ q.season_year = 2006 => ~(Truthy(info) /\ info.id = cat[1].id)

\* C4 (amended): for such a candidate the season check of season 1 passes
\* with season-year 2005 and fails with 2006.  With season-year 2005 the
\* season-aware search returns the candidate when its first-air year is 2005;
\* with season-year 2006 the season-aware search does not return it (its
\* first-air year not being 2006), and match falls back to the name search,
\* which without a year returns that same candidate.
C4_SeasonYearCheck ==
    /\ \A id \in TvIds :
          TvDetails[id].seasons = <<SeasonInfo(1, 20050327)>> =>
             /\ season_match(TvDetails[id], 2005, 1, <<>>)
             /\ ~season_match(TvDetails[id], 2006, 1, <<>>)
    /\ (C4_Query /\ ~failed) =>
          /\ ( /\ calls = <<SeasonCall>>
               /\ q.season_year = 2005
               /\ Len(cat) = 1
               /\ C4_Candidate(cat[1])
               /\ YearOf(cat[1].first_air_date) = 2005 )
             => (pc = "done" /\ Truthy(info) /\ info.id = cat[1].id)
          /\ (calls = <<SeasonCall>> /\ q.season_year = 2006) =>
                \A i \in 1..Len(cat) :
                   (C4_Candidate(cat[i]) /\ YearOf(cat[i].first_air_date) # 2006)
                      => ~(Truthy(info) /\ info.id = cat[i].id)
          /\ ( /\ pc = "done"
               /\ q.season_year = 2006
               /\ q.year = NoYear
               /\ Len(cat) = 1
               /\ C4_Candidate(cat[1]) )
             => /\ Truthy(info)
                /\ info.id = cat[1].id
                /\ calls = <<SeasonCall, Call("search_tv_by_name", NoYear)>>

\* season-year 2006: the season-aware search ran and returned nothing, and
\* the name search then returned the candidate
C4_Witness ==
    /\ pc = "done"
    /\ C4_Query
    /\ ~failed
    /\ q.season_year = 2006
    /\ Len(cat) = 1
    /\ C4_Candidate(cat[1])
    /\ YearOf(cat[1].first_air_date) = 2005
    /\ calls = <<SeasonCall, Call("search_tv_by_name", NoYear)>>
    /\ Truthy(info)
    /\ info.id = cat[1].id

\* C5 as stated: for a TV query the season-aware search is run, first, if
\* and only if season-year and season-number are both supplied; the name
\* search is run if and only if the season-aware search was skipped or
\* returned nothing; and the result is empty when both yield nothing.
C5_SeasonFirst ==
    (op = "match" /\ q.mtype = TV /\ ~Falsy(q.name)) =>
       LET both == q.season_year # NoYear /\ q.season_number # NoSeason
           season_ran == calls # <<>> /\ calls[1] = SeasonCall
           name_ran == \E i \in 1..Len(calls) : calls[i].fn = "search_tv_by_name"
       IN  /\ pc = "season" <=> (both /\ calls = <<>>)
           /\ calls # <<>> => (season_ran <=> both)
           /\ \A i \in 2..Len(calls) : calls[i] # SeasonCall
           /\ calls = <<SeasonCall>> => (Truthy(info) <=> pc = "done")
           /\ pc = "done" => (name_ran <=> (~season_ran \/ Len(calls) > 1))
           /\ (pc = "done" /\ name_ran) => (Truthy(info) <=> info.kind = "rec")

\* a candidate of the multi search that is accepted when it is examined
MultiAccepts(c) ==
    \/ /\ c.media_type = "movie"
       /\ \/ TitleMatch(q.name, c)
          \/ /\ c.id \notin bad
             /\ \E i \in 1..Len(FullRecord(c, MOVIE).names) :
                   SameName(q.name, FullRecord(c, MOVIE).names[i])
    \/ /\ c.media_type = "tv"
       /\ \/ SameName(q.name, c.name)
          \/ SameName(q.name, c.original_name)
          \/ /\ c.id \notin bad
             /\ \E i \in 1..Len(FullRecord(c, TV).names) :
                   SameName(q.name, FullRecord(c, TV).names[i])

MultiDate(c) == IF c.release_date # NoDate THEN c.release_date ELSE c.first_air_date

\* the i-th candidate of the answer is examined before the j-th
ExaminedBefore(i, j) ==
    LET c == resp.list[i]
        d == resp.list[j]
    IN  \/ c.media_type = "movie" /\ d.media_type # "movie"
        \/ /\ (c.media_type = "movie") <=> (d.media_type = "movie")
           /\ \/ MultiDate(c) > MultiDate(d)
              \/ MultiDate(c) = MultiDate(d) /\ i < j

MultiDone == pc = "done" /\ op = "match_multi" /\ resp.ok

\* C6: match_multi examines the movies before the TV shows and, within a
\* type, the later dated first: the record returned is the first accepted
\* candidate in that order (so a matching movie wins over a matching TV show
\* also when their dates are equal), its media_type is the type of that
\* candidate, and detail calls for movies come before those for TV shows.
C6_MoviesFirst ==
    MultiDone =>
       /\ (\E i \in 1..Len(resp.list) : MultiAccepts(resp.list[i])) =>
             /\ Truthy(info)
             /\ \E i \in 1..Len(resp.list) :
                   /\ MultiAccepts(resp.list[i])
                   /\ info.id = resp.list[i].id
                   /\ info.media_type =
                         (IF resp.list[i].media_type = "movie" THEN MOVIE ELSE TV)
                   /\ \A j \in 1..Len(resp.list) :
                         (j # i /\ MultiAccepts(resp.list[j])) => ExaminedBefore(i, j)
       /\ (\A i \in 1..Len(resp.list) : ~MultiAccepts(resp.list[i])) => info = EmptyV
       /\ \A k \in 1..Len(fetched) : \A l \in (k + 1)..Len(fetched) :
             fetched[k].mtype = TV => fetched[l].mtype = TV

\* the catalog lists a matching TV show ahead of a matching movie of the
\* same date: the movie is returned
C6_Witness ==
    /\ MultiDone
    /\ Len(resp.list) = 2
    /\ resp.list[1].media_type = "tv"
    /\ resp.list[2].media_type = "movie"
    /\ MultiAccepts(resp.list[1])
    /\ MultiAccepts(resp.list[2])
    /\ MultiDate(resp.list[1]) = MultiDate(resp.list[2])
    /\ info.media_type = MOVIE
    /\ info.id = resp.list[2].id

WebDone == pc = "done" /\ op = "match_web"

\* the body of match_web ran: the call was neither answered by the cache nor
\* rejected by the limiter
BodyRan == calls = <<Call("match_web", NoYear)>>

\* C7 as stated: match_web called with a name that contains a CJK ideograph
\* requests neither the search page nor a detail record, and returns an
\* empty result.
C7_Original ==
    (WebDone /\ is_chinese(q.name)) =>
       /\ page = NoPage
       /\ fetched = <<>>
       /\ raised = ""
       /\ info = EmptyV

\* C7 (amended): match_web called with a name that contains a CJK ideograph
\* requests neither the search page nor a detail record; it returns an
\* empty result unless the limiter, inside its backoff window, rejects the
\* call with the rate-limit error.
C7_NoFetchForCJK ==
    (WebDone /\ is_chinese(q.name)) =>
       /\ page = NoPage
       /\ fetched = <<>>
       /\ raised = "" => info = EmptyV
       /\ raised # "" => (raised = "RateLimited" /\ backoff /\ ~BodyRan)
       /\ BodyRan => raised = ""

C7_Witness ==
    /\ WebDone
    /\ is_chinese(q.name)
    /\ BodyRan
    /\ info = EmptyV
    /\ page = NoPage

\* the page requested by the call was answered with parsable HTML
PageParsed == WebDone /\ page.status = "200" /\ page.text = "html"

IsMediaLink(href) == href.kind \in {"tv", "movie"}

\* the distinct /movie and /tv links of the page
PageLinks ==
    {page.anchors[i].href : i \in {j \in 1..Len(page.anchors) :
                                      IsMediaLink(page.anchors[j].href)}}

\* the distinct /movie and /tv links among the anchors the call looks at:
\* all of them, or for a TV request those tagged as TV
CandidateLinks ==
    {page.anchors[i].href : i \in {j \in 1..Len(page.anchors) :
        /\ IsMediaLink(page.anchors[j].href)
        /\ q.mtype = TV => page.anchors[j].media_type = "tv"}}

LinkType(href) == IF href.kind = "tv" THEN TV ELSE MOVIE

\* C8 as stated: a detail record is returned only when exactly one distinct
\* /movie or /tv link remains on the page; with none or several the call
\* returns null and fetches no detail.
C8_Original ==
    PageParsed =>
       /\ Truthy(info) => Cardinality(PageLinks) = 1
       /\ Cardinality(PageLinks) # 1 => (info = NoneV /\ fetched = <<>>)

\* C8 (amended): the candidate links are the distinct /movie and /tv links
\* of the anchors examined (for a TV request only the anchors tagged as TV).
\* A detail record is returned only when exactly one candidate remains, and
\* it is the record of that link; with none or several the call returns an
\* empty result, not null, and fetches no detail.
C8_SingleLink ==
    /\ PageParsed =>
          /\ Truthy(info) => Cardinality(CandidateLinks) = 1
          /\ Cardinality(CandidateLinks) # 1 => (info = EmptyV /\ fetched = <<>>)
          /\ Cardinality(CandidateLinks) = 1 =>
                \E href \in CandidateLinks :
                   /\ fetched = <<Fetch(LinkType(href), href.id)>>
                   /\ Truthy(info) =>
                         (info.id = href.id /\ info.media_type = LinkType(href))
    /\ (WebDone /\ page # NoPage /\ ~PageParsed) => (~Truthy(info) /\ fetched = <<>>)

\* a page that repeats one link: one candidate, whose record is returned
C8_Witness ==
    /\ PageParsed
    /\ Len(page.anchors) = 2
    /\ page.anchors[1] = page.anchors[2]
    /\ Truthy(info)
    /\ info.id = page.anchors[1].href.id

\* C9: match_web called for TV never returns a record whose media_type is
\* movie; when the single candidate link resolves to a movie the result is
\* empty.
C9_TvNeverMovie ==
    (WebDone /\ q.mtype = TV) =>
       /\ ~(Truthy(info) /\ info.media_type = MOVIE)
       /\ ( /\ fetched # <<>>
            /\ fetched[1].mtype = MOVIE
            /\ fetched[1].id \in MovieIds
            /\ fetched[1].id \notin bad )
          => info = EmptyV

\* an anchor tagged as TV whose link is a movie's
C9_Witness ==
    /\ WebDone
    /\ q.mtype = TV
    /\ fetched = <<Fetch(MOVIE, 2)>>
    /\ bad = {}
    /\ info = EmptyV

\* the call, for a name that is not empty, was made inside the backoff
\* window of the limiter
InBackoff == WebDone /\ ~Falsy(q.name) /\ backoff /\ ~BodyRan

\* C10 as stated: match_web invoked inside the backoff window fails with the
\* rate-limit error without requesting the page, and an HTTP 429 answer
\* raises APIRateLimitException out of match_web; a rate-limited call never
\* yields a null or empty result.
C10_Original ==
    /\ InBackoff => (raised # "" /\ page = NoPage /\ fetched = <<>>)
    /\ (WebDone /\ page.status = "429") => raised = "APIRateLimitException"

\* C10 (amended): match_web invoked inside the backoff window requests
\* nothing; it fails with the rate-limit error unless the result cache holds
\* an entry for the same name and type, in which case the cached result is
\* returned.  An HTTP 429 answer raises APIRateLimitException out of
\* match_web and opens the backoff window.
C10_RateLimitSurfaced ==
    /\ InBackoff =>
          /\ page = NoPage
          /\ fetched = <<>>
          /\ IF cache_hit(cache, q.name, q.mtype)
             THEN raised = "" /\ info = cache.value
             ELSE raised = "RateLimited"
    /\ (WebDone /\ page.status = "429") =>
          (raised = "APIRateLimitException" /\ backoff)
    /\ (WebDone /\ raised # "") => backoff

\* a call for a Latin-script name rejected inside the backoff window
C10_Witness ==
    /\ InBackoff
    /\ ~is_chinese(q.name)
    /\ raised = "RateLimited"
    /\ cache # NoEntry

InfoDone == pc \in {"done", "again", "same"} /\ op = "get_info"

\* C11: get_info for a type that is neither movie nor TV looks the id up as
\* both: when both lookups return a record it returns none, when exactly one
\* does it returns that record with media_type set to the type that
\* resolved, and when neither does it returns none.
C11_UnknownType ==
    (InfoDone /\ q.mtype = UNKNOWN) =>
       /\ (Truthy(detail.tv) /\ Truthy(detail.movie)) => ~Truthy(info)
       /\ (Truthy(detail.tv) /\ ~Truthy(detail.movie)) =>
             /\ Truthy(info)
             /\ info.media_type = TV
             /\ info.id = detail.tv.id
             /\ info.original_name = detail.tv.original_name
       /\ (~Truthy(detail.tv) /\ Truthy(detail.movie)) =>
             /\ Truthy(info)
             /\ info.media_type = MOVIE
             /\ info.id = detail.movie.id
             /\ info.original_title = detail.movie.original_title
       /\ (~Truthy(detail.tv) /\ ~Truthy(detail.movie)) => ~Truthy(info)

\* the id is that of a movie and of a TV show: no record is returned
C11_Witness ==
    /\ InfoDone
    /\ q.mtype = UNKNOWN
    /\ Truthy(detail.tv)
    /\ Truthy(detail.movie)
    /\ info = NoneV

\* the derived attributes of a record
Derived(r) == <<r.genre_ids, r.names, r.en_title, r.hk_title, r.tw_title, r.sg_title>>

InfoRepeated == pc \in {"again", "same"} /\ op = "get_info"

\* C12: a second get_info call with the same type and id against an
\* unchanged catalog returns a record exactly when the first did, with equal
\* genre_ids, names, en_title, hk_title, tw_title and sg_title, also when it
\* is handed the detail record the first call enriched and rewrote in place.
C12_Idempotent ==
    InfoRepeated =>
       /\ Truthy(again) <=> Truthy(info)
       /\ Truthy(info) => Derived(again) = Derived(info)

\* the first call rewrote the primary title and the second call was handed
\* that same record
C12_Witness ==
    /\ pc = "same"
    /\ op = "get_info"
    /\ q.mtype = MOVIE
    /\ Truthy(info)
    /\ info.title # detail.movie.title
    /\ info.names # <<>>
    /\ Derived(again) = Derived(info)

\* an operation that returns a record has returned
RecordOps == {"match", "match_multi", "match_web", "get_info"}

OpDone == pc \in {"done", "again", "same"} /\ op \in RecordOps

\* C13: every non-empty record returned by match, match_multi, match_web or
\* get_info carries the movie or the TV enumeration value as media_type,
\* whether it was accepted from a search summary or from a fetched detail.
C13_TypeAlwaysSet ==
    OpDone =>
       /\ Truthy(info) => info.media_type \in {MOVIE, TV}
       /\ Truthy(again) => again.media_type \in {MOVIE, TV}

\* a TV show accepted by match_multi from its search summary, whose
\* media_type was the raw string "tv"
C13_Witness ==
    /\ OpDone
    /\ op = "match_multi"
    /\ resp.ok
    /\ fetched = <<>>
    /\ Truthy(info)
    /\ \E i \in 1..Len(resp.list) :
          resp.list[i].id = info.id /\ resp.list[i].media_type = "tv"
    /\ info.media_type = TV

\* the first certification of each release_dates entry, and the rating of
\* each content_ratings entry
FirstCertifications(results) ==
    {results[i].release_dates[1].certification :
        i \in {j \in 1..Len(results) : results[j].release_dates # <<>>}}

RatingsOf(results) == {results[i].rating : i \in 1..Len(results)}

\* C14: for a record typed as movie that carries release_dates.results the
\* content_rating is the first certification of one of its entries, or null,
\* whatever content_ratings.results holds; content_ratings is consulted only
\* when release_dates.results is absent or empty.
C14_ReleaseDatesFirst ==
    (InfoDone /\ Truthy(info) /\ info.media_type = MOVIE) =>
       /\ info.release_dates # <<>> =>
             /\ info.content_rating
                   \in {NoneStr} \cup FirstCertifications(info.release_dates)
             /\ info.content_rating =
                   get_content_rating([info EXCEPT !.content_ratings = <<>>])
       /\ info.release_dates = <<>> =>
             info.content_rating \in {NoneStr} \cup RatingsOf(info.content_ratings)

\* both lists are present and both rate the US: the certification wins
C14_Witness ==
    /\ InfoDone
    /\ Truthy(info)
    /\ info.media_type = MOVIE
    /\ info.release_dates = <<ReleaseItem("US", <<ReleaseDate(CertPG), ReleaseDate(CertR)>>)>>
    /\ info.content_ratings = <<RatingItem("US", RatingMA)>>
    /\ info.content_rating = CertPG

\* the entries of the list __get_content_rating consults, as country and
\* rating
Consulted(r) ==
    IF r.release_dates # <<>>
    THEN [i \in 1..Len(r.release_dates) |->
            [iso_3166_1 |-> r.release_dates[i].iso_3166_1,
             rating |-> IF r.release_dates[i].release_dates = <<>> THEN NoneStr
                        ELSE r.release_dates[i].release_dates[1].certification]]
    ELSE r.content_ratings

\* the rating the map holds for a country: that of the last entry of the
\* country with a rating, null without such an entry
MapEntry(entries, country) ==
    LET idx == {i \in 1..Len(entries) :
                   entries[i].iso_3166_1 = country /\ ~Falsy(entries[i].rating)}
    IN  IF idx = {} \/ country = "" THEN NoneStr
        ELSE entries[CHOOSE i \in idx : \A j \in idx : j <= i].rating

\* C15: content_rating is the rating of CN when the map has one, otherwise
\* that of the US, otherwise null; no other country's rating is taken, and
\* entries without a country code or with an empty rating do not count.
C15_CnThenUs ==
    (InfoDone /\ Truthy(info)) =>
       LET cn == MapEntry(Consulted(info), "CN")
           us == MapEntry(Consulted(info), "US")
       IN  info.content_rating = IF cn # NoneStr THEN cn ELSE us

\* CN and US are both rated, the US entry first: the CN rating is taken
C15_Witness ==
    /\ InfoDone
    /\ Truthy(info)
    /\ info.content_ratings = <<RatingItem("US", RatingMA), RatingItem("CN", Rating14)>>
    /\ info.release_dates = <<>>
    /\ info.content_rating = Rating14

\* the primary title of a record: title for a movie, name for TV
Primary(r) == IF r.media_type = MOVIE THEN r.title ELSE r.name

\* the detail a get_info result was made from
DetailOf(r) == IF r.media_type = MOVIE THEN detail.movie ELSE detail.tv

\* the alternative titles of a detail
AltsOf(r, d) ==
    IF r.media_type = MOVIE THEN d.alternative_titles.titles
    ELSE d.alternative_titles.results

\* the positions of the CN entries that are CJK, simplified and not the
\* primary title
ChineseAlts(alts, primary) ==
    {i \in 1..Len(alts) :
        /\ alts[i].iso_3166_1 = "CN"
        /\ alts[i].title \notin {NoneStr, EmptyStr}
        /\ is_chinese(alts[i].title)
        /\ zhconv_hans(alts[i].title) = alts[i].title
        /\ alts[i].title # primary}

\* C16: with the Chinese locale and a primary title that is not CJK, get_info
\* replaces the primary title with the first CN alternative title that is
\* CJK, simplified and different from it, otherwise with sg_title when that
\* is CJK and different; in every other case, and with a CJK primary title
\* or another locale, the primary title stays what the detail had.
C16_ChineseTitle ==
    (InfoDone /\ Truthy(info)) =>
       LET d == DetailOf(info)
           old == IF info.media_type = MOVIE THEN d.title ELSE d.name
           alts == AltsOf(info, d)
           found == ChineseAlts(alts, old)
       IN  Primary(info) =
              IF locale # "zh" \/ is_chinese(old) THEN old
              ELSE IF found # {}
              THEN alts[CHOOSE i \in found : \A j \in found : i <= j].title
              ELSE IF is_chinese(info.sg_title) /\ info.sg_title # old
              THEN info.sg_title
              ELSE old

\* a traditional CN entry is passed over, the simplified one behind it is
\* taken although sg_title is CJK as well
C16_Witness ==
    /\ InfoDone
    /\ Truthy(info)
    /\ info.media_type = TV
    /\ locale = "zh"
    /\ detail.tv.name = NameQ
    /\ detail.tv.alternative_titles.results
          = <<AltTitle("CN", NameTrad), AltTitle("CN", NameCJK)>>
    /\ info.sg_title = NameCJK2
    /\ info.name = NameCJK

\* the CN alternative titles do not qualify and sg_title is taken
C16_WitnessSg ==
    /\ InfoDone
    /\ Truthy(info)
    /\ info.media_type = MOVIE
    /\ locale = "zh"
    /\ detail.movie.title = NameQ
    /\ detail.movie.alternative_titles.titles = <<AltTitle("CN", NameTrad)>>
    /\ info.title = NameCJK2

\* a name without its whitespace and punctuation, in upper case
Letters(x) ==
    LET kept == SelectSeq(x, LAMBDA ch : ~IsSpace(ch) /\ ~IsPunct(ch))
    IN  [i \in 1..Len(kept) |-> UpperChar(kept[i])]

ComparedNames == pc = "done" /\ op = "compare_names"

\* the names that differ from the query name only in case, or in the amount
\* or the position of whitespace
SpacedAlike == {NameQ, NameQVar, NameLead, NameTrail, NameMoved, NameJoined}

\* C17: __compare_names is true exactly when some catalog name equals the
\* candidate after normalisation; names that differ only in case or in the
\* amount or position of whitespace are equal, a substring or superstring
\* never is, and an empty candidate or an empty name list gives false.
C17_ExactAfterNormalisation ==
    ComparedNames =>
       /\ info.value <=>
             /\ ~Falsy(q.name)
             /\ \E i \in 1..Len(names) : Letters(names[i]) = Letters(q.name)
       /\ (q.name \in SpacedAlike /\ \E i \in 1..Len(names) : names[i] \in SpacedAlike)
             => info.value
       /\ (q.name = NameQ /\ \A i \in 1..Len(names) : names[i] \in {NameShort, NameLong})
             => ~info.value
       /\ (q.name \in {NameShort, NameLong}
             /\ \A i \in 1..Len(names) : names[i] \in SpacedAlike)
             => ~info.value
       /\ (Falsy(q.name) \/ names = <<>>) => ~info.value

\* "A b" against a list whose second name is "a  B"
C17_Witness ==
    /\ ComparedNames
    /\ q.name = NameQ
    /\ names = <<NameLong, NameQVar>>
    /\ info = Bool(TRUE)

CatalogOpDone ==
    pc \in {"done", "again", "same"} /\ op \in {"match", "match_multi", "get_info"}

\* C18: when a search or a detail call fails, match, match_multi and get_info
\* return a value and raise nothing; the failed call counts as one without
\* a result: a failed search gives no record and no detail calls, match goes
\* on with the remaining years of its window, and get_info returns no record
\* for a failed detail call.
C18_FailuresAbsorbed ==
    CatalogOpDone =>
       /\ raised = ""
       /\ info.kind \in {"None", "Empty", "rec"}
       /\ (op # "get_info" /\ ~resp.ok) => (info = NoneV /\ fetched = <<>>)
       /\ (op = "match" /\ ~Falsy(q.name) /\ ~Truthy(info))
             => NameSearchYears = year_range(q.year)
       /\ (op = "get_info" /\ q.mtype = MOVIE /\ detail.movie = NoneV) => info = NoneV
       /\ (op = "get_info" /\ q.mtype = TV /\ detail.tv = NoneV) => info = NoneV
       /\ (op = "get_info" /\ q.mtype = UNKNOWN /\ detail.tv = NoneV
             /\ Truthy(detail.movie))
             => (Truthy(info) /\ info.media_type = MOVIE)

\* the search of the first year failed, the search of a later year returned
\* a record
C18_Witness ==
    /\ pc = "done"
    /\ op = "match"
    /\ q.mtype = MOVIE
    /\ failed
    /\ resp.ok
    /\ Len(calls) = 3
    /\ Truthy(info)
    /\ raised = ""

\* C19: match and match_multi return null when a search failed and nothing
\* matched, and the empty result only when every search succeeded and
\* nothing matched.
C19_NullIffFailed ==
    (pc = "done" /\ op \in {"match", "match_multi"} /\ ~Falsy(q.name) /\ ~Truthy(info))
       => (info = NoneV <=> failed)

\* the search that ended a call of match or match_multi was answered
SearchEnded ==
    pc = "done" /\ op \in {"match", "match_multi"} /\ resp.ok /\ calls # <<>>

LastCall == calls[Len(calls)]

\* candidate c has an alias equal to the query name, and its detail fetch
\* did not fail
AliasMatch(c, mt) ==
    /\ c.id \notin bad
    /\ \E i \in 1..Len(FullRecord(c, mt).names) :
          SameName(q.name, FullRecord(c, mt).names[i])

\* the search that ended the call accepts candidate c when it examines it
Accepts(c) ==
    IF op = "match_multi" THEN MultiAccepts(c)
    ELSE IF LastCall.fn = "search_movie_by_name"
    THEN /\ LastCall.year = NoYear \/ YearOf(c.release_date) = LastCall.year
         /\ TitleMatch(q.name, c) \/ AliasMatch(c, MOVIE)
    ELSE IF LastCall.fn = "search_tv_by_name"
    THEN /\ LastCall.year = NoYear \/ YearOf(c.first_air_date) = LastCall.year
         /\ \/ SameName(q.name, c.name)
            \/ SameName(q.name, c.original_name)
            \/ AliasMatch(c, TV)
    ELSE \/ /\ SameName(q.name, c.name) \/ SameName(q.name, c.original_name)
            /\ YearOf(c.first_air_date) # NoYear
            /\ YearOf(c.first_air_date) = q.season_year
         \/ /\ AliasMatch(c, TV)
            /\ season_match(FullRecord(c, TV), q.season_year, q.season_number,
                            q.group_seasons)

\* candidate i of the answer is examined before candidate j
Earlier(i, j) ==
    IF op = "match_multi" THEN ExaminedBefore(i, j)
    ELSE LET di == IF q.mtype = TV THEN resp.list[i].first_air_date
                   ELSE resp.list[i].release_date
             dj == IF q.mtype = TV THEN resp.list[j].first_air_date
                   ELSE resp.list[j].release_date
         IN  di > dj \/ (di = dj /\ i < j)

\* C20: in a search by name, by season or over both types, a failed detail
\* fetch takes from its candidate the alias check and nothing else: the
\* candidates are examined in order all the same, and the first of them that
\* is accepted, by its titles or, its detail fetched, by an alias, is
\* returned, also when it comes after the candidate whose fetch failed.
C20_FetchFailureSkipsOne ==
    (SearchEnded /\ bad # {}) =>
       LET accepted == {i \in 1..Len(resp.list) : Accepts(resp.list[i])}
       IN  /\ accepted = {} => ~Truthy(info)
           /\ accepted # {} =>
                 /\ Truthy(info)
                 /\ \E i \in accepted :
                       /\ info.id = resp.list[i].id
                       /\ \A j \in accepted \ {i} : Earlier(i, j)

\* the detail fetch of the first candidate failed, the second candidate was
\* fetched and returned
C20_Witness ==
    /\ SearchEnded
    /\ op = "match"
    /\ q.mtype = MOVIE
    /\ Len(fetched) = 2
    /\ fetched[1].id \in bad
    /\ Truthy(info)
    /\ info.id = fetched[2].id
    /\ info.id \notin bad

\* C21: a catalog record without a title or a name does not make a search
\* listing raise: search_movies and search_tvs, their search answered,
\* return a list.
C21_ListingsNeverRaise ==
    (pc = "done" /\ op \in {"search_movies", "search_tvs"} /\ resp.ok) => raised = ""

\* a call of match ended with a record found by a name search for a year
YearPassReturned ==
    /\ pc = "done"
    /\ op = "match"
    /\ Truthy(info)
    /\ calls # <<>>
    /\ LastCall.fn \in {"search_movie_by_name", "search_tv_by_name"}
    /\ LastCall.year # NoYear

\* the date of a record of the type the query asks for
DateOf(r) == IF q.mtype = TV THEN r.first_air_date ELSE r.release_date

\* C22: a name search for year P returns no candidate without a date or
\* with another year than P, whether its title or an alias equals the name;
\* so a movie that match returns for year Y was released in Y, Y+1 or Y-1.
C22_YearFilter ==
    YearPassReturned =>
       /\ DateOf(info) # NoDate
       /\ YearOf(DateOf(info)) = LastCall.year
       /\ \E i \in 1..Len(resp.list) :
             /\ resp.list[i].id = info.id
             /\ YearOf(DateOf(resp.list[i])) = LastCall.year
       /\ q.mtype # TV =>
             YearOf(info.release_date) \in {q.year, q.year + 1, q.year - 1}

\* the answer also held a candidate with a matching title and a later date
\* of another year, which was passed over
C22_Witness ==
    /\ YearPassReturned
    /\ q.mtype = MOVIE
    /\ \E j \in 1..Len(resp.list) :
          /\ TitleMatch(q.name, resp.list[j])
          /\ resp.list[j].release_date > info.release_date
          /\ YearOf(resp.list[j].release_date) # LastCall.year

\* a call of match ended with a record of the season-aware search
SeasonReturned ==
    /\ pc = "done"
    /\ op = "match"
    /\ calls # <<>>
    /\ LastCall.fn = "search_tv_by_season"
    /\ Truthy(info)

\* candidate c has the query name as its name or original name
NameEqual(c) == SameName(q.name, c.name) \/ SameName(q.name, c.original_name)

\* the alias lookup accepts candidate c: its detail was fetched, an alias
\* equals the query name and the season check passes
AliasAndSeason(c) ==
    /\ AliasMatch(c, TV)
    /\ season_match(FullRecord(c, TV), q.season_year, q.season_number, q.group_seasons)

\* C23: the season-aware search accepts a candidate on its name or original
\* name only when its first-air year is the season-year; a name-equal
\* candidate of another year goes to the alias lookup and is accepted
\* exactly when an alias equals the query name and the season check passes.
C23_NameNeedsSeasonYear ==
    SeasonReturned =>
       \E r \in 1..Len(resp.list) :
          /\ resp.list[r].id = info.id
          /\ (Fetch(TV, info.id) \notin {fetched[k] : k \in 1..Len(fetched)}) =>
                /\ NameEqual(resp.list[r])
                /\ YearOf(resp.list[r].first_air_date) = q.season_year
          /\ \A i \in 1..Len(resp.list) :
                (/\ i = r \/ Earlier(i, r)
                 /\ NameEqual(resp.list[i])
                 /\ YearOf(resp.list[i].first_air_date) # q.season_year)
                   => (i = r <=> AliasAndSeason(resp.list[i]))

\* a candidate with the query name and another first-air year, returned
\* through its alias and its season
C23_Witness ==
    /\ SeasonReturned
    /\ \E r \in 1..Len(resp.list) :
          /\ resp.list[r].id = info.id
          /\ NameEqual(resp.list[r])
          /\ YearOf(resp.list[r].first_air_date) # q.season_year
    /\ fetched # <<>>
    /\ fetched[Len(fetched)] = Fetch(TV, info.id)

SeasonChecked == pc = "done" /\ op = "season_match"

\* group g is the group of the requested season, has an episode, and its
\* first episode was aired, by a well-formed date, in the season-year
GroupPasses(g) ==
    /\ g.order = q.season_number
    /\ g.episodes # <<>>
    /\ g.episodes[1].air_date \notin {NoDate, Malformed}
    /\ g.episodes[1].air_date \div 10000 = q.season_year

\* the seasons of the show alone would pass the season check
OwnSeasonPasses ==
    \E i \in 1..Len(detail.tv.seasons) :
       /\ detail.tv.seasons[i].season_number = q.season_number
       /\ detail.tv.seasons[i].air_date # NoDate
       /\ detail.tv.seasons[i].air_date \div 10000 = q.season_year

C24_WitnessFail ==
    /\ SeasonChecked
    /\ OwnSeasonPasses
    /\ \E i \in 1..Len(q.group_seasons) :
          /\ q.group_seasons[i].order = q.season_number
          /\ q.group_seasons[i].episodes = <<Aired(NoDate)>>
    /\ info = Bool(FALSE)

GroupsRead == pc = "done" /\ op = "get_tv_group_seasons" /\ resp.ok

\* C27: get_tv_group_seasons returns the groups of the catalog in their
\* order and otherwise unchanged, each with its episodes in their order and
\* numbered 1, 2, ..., n by position, whatever number the catalog gave them,
\* starting at 1 in every group.
C27_EpisodesRenumbered ==
    GroupsRead =>
       /\ Len(info.items) = Len(resp.list)
       /\ \A g \in 1..Len(resp.list) :
             /\ info.items[g].order = resp.list[g].order
             /\ Len(info.items[g].episodes) = Len(resp.list[g].episodes)
             /\ \A i \in 1..Len(resp.list[g].episodes) :
                   /\ info.items[g].episodes[i].id = resp.list[g].episodes[i].id
                   /\ info.items[g].episodes[i].episode_number = i

\* two groups whose episodes the catalog numbered 5 and 1
C27_Witness ==
    /\ GroupsRead
    /\ Len(resp.list) = 2
    /\ \A g \in 1..2 : resp.list[g].episodes = <<Episode("a", 5), Episode("b", 1)>>
    /\ \A g \in 1..2 :
          info.items[g].episodes = <<Episode("a", 1), Episode("b", 2)>>

\* C28: the season map of a show holds every entry of its seasons attribute
\* that carries a season number, season 0 included, under that number.
C28_EveryNumberedSeason ==
    (pc = "done" /\ op = "get_tv_seasons") =>
       \A i \in 1..Len(detail.tv.seasons) :
          detail.tv.seasons[i].season_number # NoSeason =>
             \E k \in 1..Len(info.items) :
                info.items[k].key = detail.tv.seasons[i].season_number

\* the alternative titles of a detail followed by its translated titles:
\* title of the entries of titles and data.title for a movie, title of the
\* entries of results and data.name for a TV show
TitleSources(r, d) ==
    [i \in 1..Len(AltsOf(r, d)) |-> AltsOf(r, d)[i].title]
       \o [i \in 1..Len(d.translations) |->
              IF r.media_type = MOVIE THEN d.translations[i].data.title
              ELSE d.translations[i].data.name]

\* the first position of x in sequence xs
FirstAt(xs, x) ==
    CHOOSE i \in 1..Len(xs) : xs[i] = x /\ \A j \in 1..(i - 1) : xs[j] # x

\* C25: the names list of a record get_info returns holds each non-empty
\* alternative or translated title of the record once, in the order of their
\* first appearance with the alternative titles ahead of the translated
\* ones, and nothing else.
C25_NamesList ==
    (InfoDone /\ Truthy(info)) =>
       LET src == TitleSources(info, DetailOf(info))
           given == {src[i] : i \in 1..Len(src)} \ {NoneStr, EmptyStr}
       IN  /\ {info.names[k] : k \in 1..Len(info.names)} = given
           /\ \A k, l \in 1..Len(info.names) :
                 k < l => FirstAt(src, info.names[k]) < FirstAt(src, info.names[l])

\* a title that is both an alternative and a translated title, and an
\* alternative title without text
C25_Witness ==
    /\ InfoDone
    /\ Truthy(info)
    /\ info.media_type = TV
    /\ detail.tv.alternative_titles.results
          = <<AltTitle("US", NoneStr), AltTitle("CN", NameTrad)>>
    /\ Len(detail.tv.translations) = 3
    /\ info.names = <<NameTrad, NameLong>>

\* the text of the first translation of a region, null without one
Translated(r, d, region) ==
    LET at == {i \in 1..Len(d.translations) : d.translations[i].iso_3166_1 = region}
        first == CHOOSE i \in at : \A j \in at : i <= j
    IN  IF at = {} THEN NoneStr
        ELSE IF r.media_type = MOVIE THEN d.translations[first].data.title
        ELSE d.translations[first].data.name

\* C26: en_title is the original title when original_language is "en",
\* otherwise the US translation when there is a non-empty one, otherwise the
\* original title; hk_title and tw_title are the HK and TW translations or
\* null; sg_title is the SG translation or else the original title.
C26_LocaleTitles ==
    (InfoDone /\ Truthy(info)) =>
       LET d == DetailOf(info)
           org == IF info.media_type = MOVIE THEN d.original_title ELSE d.original_name
           us == Translated(info, d, "US")
           sg == Translated(info, d, "SG")
       IN  /\ info.en_title =
                 IF d.original_language = "en" \/ us \in {NoneStr, EmptyStr} THEN org
                 ELSE us
           /\ info.hk_title = Translated(info, d, "HK")
           /\ info.tw_title = Translated(info, d, "TW")
           /\ info.sg_title = IF sg \in {NoneStr, EmptyStr} THEN org ELSE sg

\* an English original with a US translation of another text
C26_Witness ==
    /\ InfoDone
    /\ Truthy(info)
    /\ info.media_type = MOVIE
    /\ detail.movie.original_language = "en"
    /\ Translated(info, detail.movie, "US") = NameLong
    /\ info.en_title = NameOther
    /\ info.hk_title = NameTrad
    /\ info.sg_title = NameOther

\* a call of match for a movie or an unknown type, running or ended
MovieMatch == op = "match" /\ q.mtype # TV /\ pc \in {"movie", "tv", "season", "done"}

\* C30: a call of match for a type other than TV issues movie searches and
\* movie detail fetches only, and a record it returns has media_type movie;
\* season-year, season number and episode groups change nothing: the
\* searches are those of the year window, and the result is what the last
\* movie search gives for the name and the year.
C30_MovieOnly ==
    MovieMatch =>
       /\ pc \in {"movie", "done"}
       /\ \A i \in 1..Len(calls) : calls[i].fn = "search_movie_by_name"
       /\ \A i \in 1..Len(fetched) : fetched[i].mtype = MOVIE
       /\ IsPrefix(NameSearchYears, year_range(q.year))
       /\ (pc = "done" /\ Truthy(info)) => info.media_type = MOVIE
       /\ (pc = "done" /\ calls # <<>>) =>
             info = SetType(search_movie_by_name(q.name, LastCall.year, resp, bad,
                                                 locale).ret, MOVIE)

\* an unknown type with season-year, season number and episode groups: a
\* movie is returned after a movie detail fetch
C30_Witness ==
    /\ MovieMatch
    /\ pc = "done"
    /\ q.mtype = UNKNOWN
    /\ q.season_year # NoYear
    /\ q.season_number = 1
    /\ q.group_seasons # <<>>
    /\ fetched # <<>>
    /\ Truthy(info)
    /\ info.media_type = MOVIE

TagCallDone == pc = "done" /\ op = "get_torrent_id_by_tag"

\* the calls of a kind among the calls made
CallsOf(fn) == SelectSeq(calls, LAMBDA cl : cl.fn = fn)

\* the polling of get_torrent_id_by_tag whatever the number of attempts:
\* every attempt follows a wait of 3 seconds, the first attempt that finds a
\* torrent is the last, its hash is returned and the tag is removed from it
\* once; without a find nothing is removed and None is returned
PollingDiscipline ==
    TagCallDone =>
       /\ Len(CallsOf("time.sleep")) = Len(Polls)
       /\ \A k \in 1..Len(calls) :
             calls[k].fn = "get_torrents" =>
                (calls[k - 1].fn = "time.sleep"
                    /\ calls[k - 1].what.seconds = SleepSeconds)
       /\ \A k \in 1..(Len(Polls) - 1) : Polls[k].what.hashes = <<>>
       /\ IF Polls[Len(Polls)].what.hashes = <<>>
          THEN info = NoneV /\ CallsOf("delete_torrents_tag") = <<>>
          ELSE /\ info = StrV(Polls[Len(Polls)].what.hashes[1])
               /\ Len(CallsOf("delete_torrents_tag")) = 1
               /\ calls[Len(calls)].fn = "delete_torrents_tag"
               /\ calls[Len(calls)].what.hash = info.value

\* C29: get_torrent_id_by_tag makes up to 10 attempts; when none of them
\* finds a torrent it returns None after the tenth.
C29_TenAttempts ==
    TagCallDone =>
       /\ Len(Polls) <= 10
       /\ info = NoneV => Len(Polls) = 10

=============================================================================
